---- MODULE Spec2Model ----
(***************************************************************************)
(* Control-plane model of the rtl8365mb DSA switch driver.                 *)
(*                                                                         *)
(* The chip is a set of 16-bit registers and indexed tables.  Registers    *)
(* and table rows are kept as raw 16-bit words; every field access goes    *)
(* through the same pack/unpack arithmetic as the driver's FIELD_GET /     *)
(* FIELD_PREP / regmap_update_bits calls.                                  *)
(***************************************************************************)
EXTENDS Integers, Sequences, FiniteSets, TLC

(***************************************************************************)
(* Bounds of the model                                                     *)
(***************************************************************************)
\* user ports the host issues VLAN requests for: 2 .. 1+NumUserPorts
NumUserPorts == 2
\* in-range non-zero VLAN ids the host uses: 10 .. 9+NumVids
NumVids == 2
\* requests the host issues after provisioning
MaxOps == 3
\* concurrent callers of rtl8365mb_table_access
NumCallers == 2
\* status-register reads one busy-poll makes before it gives up
PollBound == 2
\* times the hardware counters advance while the statistics are watched
MaxGen == 1
\* runs of the statistics work that are followed
MaxCycles == 3

(***************************************************************************)
(* Program constants                                                       *)
(***************************************************************************)
RTL8365MB_MAX_NUM_PORTS == 11
RTL8365MB_MAX_4K_VID == 4095
RTL8365MB_MAX_MC_VID == 8191
RTL8365MB_VLAN_4K_ENTRY_SIZE == 3
RTL8365MB_VLAN_MC_CONF_ENTRY_SIZE == 4
RTL8365MB_VLAN_MC_CONF_SIZE == 32
RTL8365MB_TABLE_CVLAN == 3
RTL8365MB_NUM_TABLES == 6
RTL8365MB_TABLE_READ == 0
RTL8365MB_TABLE_WRITE == 1
RTL8365MB_FRAME_TYPE_ANY_FRAME == 0
RTL8365MB_FRAME_TYPE_TAGGED_ONLY == 1
RTL8365MB_FRAME_TYPE_UNTAGGED_ONLY == 2
EINVAL == 22
EIO == 5
ETIMEDOUT == 110
RTL8365MB_PHYADDRMAX == 7
RTL8365MB_NUM_PHYREGS == 32
RTL8365MB_PHY_BASE == 8192
RTL8365MB_PHY_OCP_ADDR_PHYREG_BASE == 41984
RTL8365MB_INDIRECT_ACCESS_CTRL_RW_WRITE == 1
RTL8365MB_INDIRECT_ACCESS_CTRL_CMD_VALUE == 1
ENOMEM == 12
EPROBE_DEFER == 517
RTL8365MB_INTR_POLARITY_HIGH == 0
RTL8365MB_INTR_POLARITY_LOW == 1
RTL8365MB_INTR_ALL_MASK == 7167
RTL8365MB_INTR_SPEED_CHANGE_MASK == 8
RTL8365MB_INTR_LINK_CHANGE_MASK == 1
RTL8365MB_MIB_ADDRESS_PORT_OFFSET == 124
RTL8365MB_MIB_CTRL0_RESET_MASK == 2
RTL8365MB_MIB_CTRL0_BUSY_MASK == 1
\* staging registers of a table transaction: 0x0510..0x0519, 0x0520..0x0529
RTL8365MB_TABLE_DATA_REGS == 10

(***************************************************************************)
(* Bit-field arithmetic.  A mask is the contiguous bit range GENMASK(h,l). *)
(***************************************************************************)
BIT(n) == 2^n
GENMASK(h, l) == [h |-> h, l |-> l]
FIELD_WIDTH(m) == m.h - m.l + 1
FIELD_MAX(m) == 2^FIELD_WIDTH(m) - 1
\* (reg & mask) >> shift
FIELD_GET(m, reg) == (reg \div 2^(m.l)) % 2^FIELD_WIDTH(m)
\* (val << shift) & mask
FIELD_PREP(m, val) == (val % 2^FIELD_WIDTH(m)) * 2^(m.l)
\* reg & ~mask
FieldClear(m, reg) == reg - FIELD_GET(m, reg) * 2^(m.l)
\* val & mask
MaskAnd(m, val) == FIELD_GET(m, val) * 2^(m.l)

RECURSIVE BitOr(_, _)
BitOr(a, b) ==
    IF a = 0 THEN b
    ELSE IF b = 0 THEN a
    ELSE (IF a % 2 = 1 \/ b % 2 = 1 THEN 1 ELSE 0) + 2 * BitOr(a \div 2, b \div 2)

\* a & ~b
RECURSIVE BitAndNot(_, _)
BitAndNot(a, b) ==
    IF a = 0 THEN 0
    ELSE IF b = 0 THEN a
    ELSE (IF a % 2 = 1 /\ b % 2 = 0 THEN 1 ELSE 0) + 2 * BitAndNot(a \div 2, b \div 2)

TestBit(x, n) == (x \div 2^n) % 2 = 1

\* (old & ~mask) | (val & mask)
regmap_update_bits(old, m, val) == FieldClear(m, old) + MaskAnd(m, val)

(***************************************************************************)
(* Register layout                                                         *)
(***************************************************************************)
RTL8365MB_VLAN_ACCEPT_FRAME_TYPE_REG(port) == port \div 8
RTL8365MB_VLAN_ACCEPT_FRAME_TYPE_OFFSET(port) == (port % 8) * 2
RTL8365MB_VLAN_ACCEPT_FRAME_TYPE_MASK(port) ==
    GENMASK(RTL8365MB_VLAN_ACCEPT_FRAME_TYPE_OFFSET(port) + 1,
            RTL8365MB_VLAN_ACCEPT_FRAME_TYPE_OFFSET(port))

RTL8365MB_VLAN_PVID_CTRL_REG(port) == port \div 2
\* variant: the PVID field of every port at bit 0 of its register
pvid_ctrl_offset_zero(port) == 0

\* ((port) & 1) << 3
RTL8365MB_VLAN_PVID_CTRL_OFFSET(port) == (port % 2) * 8
RTL8365MB_VLAN_PVID_CTRL_MASK(port) ==
    GENMASK(RTL8365MB_VLAN_PVID_CTRL_OFFSET(port) + 7,
            RTL8365MB_VLAN_PVID_CTRL_OFFSET(port))

RTL8365MB_VLAN_4K_CONF0_MEMBERS_LS_MASK == GENMASK(7, 0)
RTL8365MB_VLAN_4K_CONF2_MEMBERS_MS_MASK == GENMASK(2, 0)
RTL8365MB_VLAN_4K_CONF0_UNTAG_LS_MASK == GENMASK(15, 8)
RTL8365MB_VLAN_4K_CONF2_UNTAG_MS_MASK == GENMASK(5, 3)
RTL8365MB_VLAN_4K_CONF1_FID_MSI_MASK == GENMASK(3, 0)

RTL8365MB_VLAN_MC_CONF0_MEMBERS_MSK == GENMASK(10, 0)
RTL8365MB_VLAN_MC_CONF1_FID_MSI_MSK == GENMASK(3, 0)
RTL8365MB_VLAN_MC_CONF2_VBPRI_MSK == GENMASK(3, 1)
RTL8365MB_VLAN_MC_CONF3_EVID_MSK == GENMASK(12, 0)
RTL8365MB_TABLE_ACCESS_ADDR_REG_MASK == GENMASK(13, 0)

\* value fits the field: FIELD_FIT(mask, val)
FIELD_FIT(m, val) == val <= FIELD_MAX(m)

rtl8365mb_table_entry_size(table) == IF table = RTL8365MB_TABLE_CVLAN THEN 3 ELSE 0

(***************************************************************************)
(* Environment: the board has port 8 as its only CPU port.                 *)
(***************************************************************************)
CpuPort == 8
dsa_cpu_ports == BIT(CpuPort)

UserPorts == 2 .. (1 + NumUserPorts)
OpPorts == UserPorts \cup {CpuPort}
\* port and VLAN ids used to occupy context slots before the requests start
FillPort == 0
FillCount == RTL8365MB_VLAN_MC_CONF_SIZE - 2
FillVid(k) == 100 + k
FillVids == {FillVid(k) : k \in 1 .. FillCount}
\* 0, in-range ids, one id valid only for context slots, one id out of range
Vids == {0} \cup (10 .. (9 + NumVids))
           \cup {RTL8365MB_MAX_4K_VID + 1, RTL8365MB_MAX_MC_VID + 1}
\* by-ID rows the model tracks
Vids4k == {v \in Vids \cup FillVids : v <= RTL8365MB_MAX_4K_VID}
Flags == [untagged : BOOLEAN, pvid : BOOLEAN]

ZeroRow(n) == [i \in 0 .. (n - 1) |-> 0]

VARIABLES
    vlan4k,             \* by-ID table: vid -> row of 3 words
    vlanmc,             \* context slots: index -> 4 registers
    pvid_ctrl,          \* PVID registers, two ports per register
    accept_frame_type,  \* accepted-frame-type registers, eight ports each
    last,               \* the request served last and what it returned
    nreq                \* number of requests served after provisioning

vlan_vars == <<vlan4k, vlanmc, pvid_ctrl, accept_frame_type, last, nreq>>

\* state of the table-transaction engine and of the callers of
\* rtl8365mb_table_access (used by TableSpec; at rest under Spec)
VARIABLES
    table_lock,         \* mb->table_lock: 0 when free, else the holder
    ta_pc,              \* caller -> where it is in rtl8365mb_table_access
    ta_call,            \* caller -> [table, op, index, val] of its call
    ta_ret,             \* caller -> ret
    ta_lut,             \* caller -> lut, the status word it polled last
    ta_polls,           \* caller -> polls made by the current busy-poll
    ta_expect,          \* caller -> row last written to the index it reads
    wr_data,            \* write-data staging registers 0x0510..0x0519
    rd_data,            \* read-data registers 0x0520..0x0529
    addr_reg,           \* RTL8365MB_TABLE_ACCESS_ADDR_REG
    ctrl_reg,           \* RTL8365MB_TABLE_CONTROL_REG
    lut_reg,            \* RTL8365MB_TABLE_LUT_REG (busy flag is bit 13)
    hw_read,            \* the read command the chip is executing, if any
    ta_written          \* index -> row of the last completed write

ta_vars == <<table_lock, ta_pc, ta_call, ta_ret, ta_lut, ta_polls, ta_expect,
             wr_data, rd_data, addr_reg, ctrl_reg, lut_reg, hw_read, ta_written>>

(***************************************************************************)
(* Statistics engine of one port.  mib_lock and stats_lock hold the name   *)
(* of their owner or "free"; mib_gen counts the advances of the hardware   *)
(* counters; su_* are the locals of the running rtl8365mb_stats_update     *)
(* (position, loop index, cnt[], ret, next statement of the publication);  *)
(* stats is the port's published rtnl_link_stats64; gs_* are the position  *)
(* and the buffer s of a caller of rtl8365mb_get_stats64.  st_before,      *)
(* st_published and st_ncycles are history: the snapshot when the running  *)
(* cycle started, the snapshots completed cycles published, and the number *)
(* of finished cycles.                                                     *)
(***************************************************************************)
VARIABLES
    mib_lock, stats_lock, mib_gen,
    su_pc, su_i, su_cnt, su_ret, su_f,
    stats,
    gs_pc, gs_s,
    st_before, st_published, st_ncycles

st_vars == <<mib_lock, stats_lock, mib_gen, su_pc, su_i, su_cnt, su_ret, su_f,
             stats, gs_pc, gs_s, st_before, st_published, st_ncycles>>

\* the statistics state other than mib_lock
st_rest == <<stats_lock, mib_gen, su_pc, su_i, su_cnt, su_ret, su_f,
             stats, gs_pc, gs_s, st_before, st_published, st_ncycles>>

(***************************************************************************)
(* Callers of rtl8365mb_mib_counter_read and the counter-access registers  *)
(* of the chip (used by MibSpec).                                          *)
(***************************************************************************)
VARIABLES
    mc_pc,              \* caller -> where it is
    mc_call,            \* caller -> [kind, port] of the path it runs
    mc_i,               \* caller -> position in the counters of its path
    mc_ret,             \* caller -> ret of its last counter read
    mc_polls,           \* caller -> polls made by the current busy-poll
    mc_val,             \* caller -> val, the control word it read last
    mc_tmp,             \* caller -> tmpvalue
    mc_w,               \* caller -> i of the word loop
    mc_out,             \* caller -> *mibvalue of the current counter
    mib_address_reg,    \* RTL8365MB_MIB_ADDRESS_REG
    mib_ctrl0_reg,      \* RTL8365MB_MIB_CTRL0_REG
    mib_counter_regs    \* RTL8365MB_MIB_COUNTER_REG(0..3)

mc_vars == <<mc_pc, mc_call, mc_i, mc_ret, mc_polls, mc_val, mc_tmp, mc_w,
             mc_out, mib_address_reg, mib_ctrl0_reg, mib_counter_regs>>

(***************************************************************************)
(* The delayed work mib_work of each port and the link handlers that       *)
(* start and cancel it (used by PollSpec).                                  *)
(***************************************************************************)
VARIABLES
    wk_link,            \* port -> "down", "up", or "going_down" while
                        \*         rtl8365mb_phylink_mac_link_down runs
    wk_timer,           \* port -> "none", or the delay the work is pending with
    wk_pc,              \* port -> where the running rtl8365mb_stats_poll is
    wk_ret,             \* port -> ret of the counter batch of the run
    wk_stale,           \* port -> the last batch failed
    wk_cancel,          \* port -> a cancel_delayed_work_sync is in progress
    td_pc,              \* where rtl8365mb_stats_teardown is
    td_port             \* the port its loop is at

wk_vars == <<wk_link, wk_timer, wk_pc, wk_ret, wk_stale, wk_cancel, td_pc,
             td_port>>

(***************************************************************************)
(* The interrupt registers of the chip and the outcome of the last run of  *)
(* the threaded handler rtl8365mb_irq (used by IrqSpec).                   *)
(***************************************************************************)
VARIABLES
    intr_status,        \* RTL8365MB_INTR_STATUS_REG
    linkup_ind,         \* RTL8365MB_PORT_LINKUP_IND_REG
    linkdown_ind,       \* RTL8365MB_PORT_LINKDOWN_IND_REG
    irq_in,             \* the three registers when the last run began
    irq_ret,            \* what the last run returned, "none" before any
    irq_err,            \* ret of the register access that failed in it, or 0
    irq_lines           \* lines whose nested interrupt it handled, in order

ih_vars == <<intr_status, linkup_ind, linkdown_ind, irq_in, irq_ret, irq_err,
             irq_lines>>

(***************************************************************************)
(* What rtl8365mb_irq_setup acquires and rtl8365mb_irq_teardown releases   *)
(* (used by IrqSetupSpec).                                                 *)
(***************************************************************************)
VARIABLES
    mb_irq,             \* mb->irq: the parent interrupt, 0 when not requested
    irqdomain,          \* priv->irqdomain is not NULL
    virq_maps,          \* lines of the domain that have a mapping
    irq_handler,        \* rtl8365mb_irq is registered on the parent interrupt
    intc_refs,          \* references held on the interrupt-controller node
    intr_ctrl,          \* RTL8365MB_INTR_CTRL_REG
    intr_polarity,      \* RTL8365MB_INTR_POLARITY_REG
    is_log,             \* what the last call acquired, wrote and released
    is_last,            \* the last call and what it returned
    is_fault            \* something was released that was not held

is_vars == <<mb_irq, irqdomain, virq_maps, irq_handler, intc_refs, intr_ctrl,
             intr_polarity, is_log, is_last, is_fault>>

(***************************************************************************)
(* The ingress filter register and the last call of                        *)
(* rtl8365mb_vlan_filtering (used by FilterSpec).                          *)
(***************************************************************************)
VARIABLES
    vlan_ingress,       \* RTL8365MB_VLAN_INGRESS_REG
    vf_last             \* port, setting and return value of the last call

vf_vars == <<vlan_ingress, vf_last>>

(***************************************************************************)
(* The PHY registers behind the indirect access window and the last call   *)
(* of rtl8365mb_phy_write (used by PhySpec).                               *)
(***************************************************************************)
VARIABLES
    phy_mem,            \* PHY register contents, by prefix and address word
    ia_regs,            \* the registers of the indirect access window
    ph_last             \* the last call: what it returned and what it did

ph_vars == <<phy_mem, ia_regs, ph_last>>

(***************************************************************************)
(* Two calls of rtl8365mb_vlan_add running at the same time (used by       *)
(* RaceSpec): the locals of each call.                                     *)
(***************************************************************************)
VARIABLES
    cv_pc,              \* where each call stands
    cv_idx,             \* vlanmc_idx
    cv_first,           \* first_unused
    cv_entry,           \* vlan_entry
    cv_4k,              \* vlan4k
    cv_ret              \* what the call returned

cv_vars == <<cv_pc, cv_idx, cv_first, cv_entry, cv_4k, cv_ret>>

(***************************************************************************)
(* The progress of rtl8365mb_setup and the life of mb->table_lock (used by *)
(* SetupSpec).                                                             *)
(***************************************************************************)
VARIABLES
    sp_pc,              \* where rtl8365mb_setup stands
    tl_init,            \* mutex_init(&mb->table_lock) has run
    tl_used,            \* mutex_lock(&mb->table_lock) has run
    tl_early,           \* the lock was taken before mutex_init
    tl_reinit           \* mutex_init ran on a lock that had been taken

sp_vars == <<sp_pc, tl_init, tl_used, tl_early, tl_reinit>>

(***************************************************************************)
(* The spanning-tree port state registers of tree instance 0 (used by      *)
(* StpSpec).                                                               *)
(***************************************************************************)
VARIABLES
    msti_ctrl,          \* the MSTI control registers, by address
    stp_pc,             \* "reset" until the setup loop has run
    stp_last,           \* the last call of rtl8365mb_port_stp_state_set
    stp_n               \* calls made by the host

sg_vars == <<msti_ctrl, stp_pc, stp_last, stp_n>>

\* state of the subsystems modelled last
later_vars == <<ph_vars, cv_vars, sp_vars, sg_vars>>

\* state added for the subsystems modelled after the statistics engine
ext_vars == <<mc_vars, wk_vars, ih_vars, is_vars, vf_vars, later_vars>>

vars == <<vlan_vars, ta_vars, st_vars, ext_vars>>

Chip == [vlan4k |-> vlan4k, vlanmc |-> vlanmc, pvid_ctrl |-> pvid_ctrl,
         accept_frame_type |-> accept_frame_type]

(***************************************************************************)
(* Table access.  The busy-poll handshake is not the subject here: a       *)
(* completed write transaction stores the staged words in the addressed    *)
(* row, a completed read returns the row.  Each operation returns          *)
(* [ret, chip, ...] and the list of table rows and registers it wrote.     *)
(***************************************************************************)
rtl8365mb_table_access(chip, table, op, index, val) ==
    IF table >= RTL8365MB_NUM_TABLES
    THEN [ret |-> -EINVAL, chip |-> chip, val |-> val, log |-> <<>>]
    ELSE IF ~FIELD_FIT(RTL8365MB_TABLE_ACCESS_ADDR_REG_MASK, index)
    THEN [ret |-> -EINVAL, chip |-> chip, val |-> val, log |-> <<>>]
    ELSE LET val_size == rtl8365mb_table_entry_size(table) IN
         IF op = RTL8365MB_TABLE_WRITE
         THEN [ret |-> 0,
               chip |-> [chip EXCEPT !.vlan4k[index] =
                            [i \in 0 .. (val_size - 1) |-> val[i]]],
               val |-> val,
               log |-> << <<"4k", index>> >>]
         ELSE [ret |-> 0, chip |-> chip,
               val |-> [i \in DOMAIN val |->
                           IF i < val_size THEN chip.vlan4k[index][i] ELSE val[i]],
               log |-> <<>>]

(***************************************************************************)
(* By-ID (4K) table rows                                                   *)
(***************************************************************************)
\* variant: the three most significant member/untag bits (word 2) are not read
buf_vlan4k_low_byte_only(buf) ==
    [member |-> FIELD_GET(RTL8365MB_VLAN_4K_CONF0_MEMBERS_LS_MASK, buf[0]),
     untag |-> FIELD_GET(RTL8365MB_VLAN_4K_CONF0_UNTAG_LS_MASK, buf[0]),
     fid |-> FIELD_GET(RTL8365MB_VLAN_4K_CONF1_FID_MSI_MASK, buf[1])]

rtl8365mb_buf_vlan4k(buf) ==
    [member |-> FIELD_GET(RTL8365MB_VLAN_4K_CONF0_MEMBERS_LS_MASK, buf[0])
                + FIELD_GET(RTL8365MB_VLAN_4K_CONF2_MEMBERS_MS_MASK, buf[2])
                  * 2^FIELD_WIDTH(RTL8365MB_VLAN_4K_CONF0_MEMBERS_LS_MASK),
     untag |-> FIELD_GET(RTL8365MB_VLAN_4K_CONF0_UNTAG_LS_MASK, buf[0])
               + FIELD_GET(RTL8365MB_VLAN_4K_CONF2_UNTAG_MS_MASK, buf[2])
                 * 2^FIELD_WIDTH(RTL8365MB_VLAN_4K_CONF0_UNTAG_LS_MASK),
     fid |-> FIELD_GET(RTL8365MB_VLAN_4K_CONF1_FID_MSI_MASK, buf[1])]

rtl8365mb_vlan4k_buf(vlan4k_, buf) ==
    LET b0m == FieldClear(RTL8365MB_VLAN_4K_CONF0_MEMBERS_LS_MASK, buf[0])
               + FIELD_PREP(RTL8365MB_VLAN_4K_CONF0_MEMBERS_LS_MASK,
                     vlan4k_.member % (FIELD_MAX(RTL8365MB_VLAN_4K_CONF0_MEMBERS_LS_MASK) + 1))
        b2m == FieldClear(RTL8365MB_VLAN_4K_CONF2_MEMBERS_MS_MASK, buf[2])
               + FIELD_PREP(RTL8365MB_VLAN_4K_CONF2_MEMBERS_MS_MASK,
                     vlan4k_.member \div 2^FIELD_WIDTH(RTL8365MB_VLAN_4K_CONF0_MEMBERS_LS_MASK))
        b1 == FieldClear(RTL8365MB_VLAN_4K_CONF1_FID_MSI_MASK, buf[1])
              + FIELD_PREP(RTL8365MB_VLAN_4K_CONF1_FID_MSI_MASK, vlan4k_.fid)
        b0 == FieldClear(RTL8365MB_VLAN_4K_CONF0_UNTAG_LS_MASK, b0m)
              + FIELD_PREP(RTL8365MB_VLAN_4K_CONF0_UNTAG_LS_MASK,
                    vlan4k_.untag % (FIELD_MAX(RTL8365MB_VLAN_4K_CONF0_UNTAG_LS_MASK) + 1))
        b2 == FieldClear(RTL8365MB_VLAN_4K_CONF2_UNTAG_MS_MASK, b2m)
              + FIELD_PREP(RTL8365MB_VLAN_4K_CONF2_UNTAG_MS_MASK,
                    vlan4k_.untag \div 2^FIELD_WIDTH(RTL8365MB_VLAN_4K_CONF0_UNTAG_LS_MASK))
    IN [i \in DOMAIN buf |-> IF i = 0 THEN b0 ELSE IF i = 1 THEN b1
                              ELSE IF i = 2 THEN b2 ELSE buf[i]]

rtl8365mb_vlan4k_set(chip, port, vid, flags, include) ==
    IF vid > RTL8365MB_MAX_4K_VID
    THEN [ret |-> -EINVAL, chip |-> chip, log |-> <<>>]
    ELSE LET rd == rtl8365mb_table_access(chip, RTL8365MB_TABLE_CVLAN,
                       RTL8365MB_TABLE_READ, vid,
                       ZeroRow(RTL8365MB_VLAN_4K_ENTRY_SIZE))
         IN IF rd.ret # 0
            THEN [ret |-> rd.ret, chip |-> rd.chip, log |-> rd.log]
            ELSE LET v0 == rtl8365mb_buf_vlan4k(rd.val)
                     mem == IF include THEN BitOr(v0.member, BIT(port))
                            ELSE BitAndNot(v0.member, BIT(port))
                     unt == IF include /\ flags.untagged
                            THEN BitOr(v0.untag, BIT(port))
                            ELSE BitAndNot(v0.untag, BIT(port))
                     v1 == [member |-> mem, untag |-> unt, fid |-> v0.fid]
                     wr == rtl8365mb_table_access(rd.chip, RTL8365MB_TABLE_CVLAN,
                               RTL8365MB_TABLE_WRITE, vid,
                               rtl8365mb_vlan4k_buf(v1, rd.val))
                 IN [ret |-> wr.ret, chip |-> wr.chip, log |-> rd.log \o wr.log]

(***************************************************************************)
(* VLAN context (MC) slots                                                 *)
(***************************************************************************)
rtl8365mb_buf_vlanmc(buf) ==
    [member |-> FIELD_GET(RTL8365MB_VLAN_MC_CONF0_MEMBERS_MSK, buf[0]),
     fid |-> FIELD_GET(RTL8365MB_VLAN_MC_CONF1_FID_MSI_MSK, buf[1]),
     priority |-> FIELD_GET(RTL8365MB_VLAN_MC_CONF2_VBPRI_MSK, buf[2]),
     vid |-> FIELD_GET(RTL8365MB_VLAN_MC_CONF3_EVID_MSK, buf[3])]

rtl8365mb_vlanmc_buf(vlanmc_, buf) ==
    [i \in DOMAIN buf |->
        IF i = 0 THEN FieldClear(RTL8365MB_VLAN_MC_CONF0_MEMBERS_MSK, buf[0])
                      + FIELD_PREP(RTL8365MB_VLAN_MC_CONF0_MEMBERS_MSK, vlanmc_.member)
        ELSE IF i = 1 THEN FieldClear(RTL8365MB_VLAN_MC_CONF1_FID_MSI_MSK, buf[1])
                      + FIELD_PREP(RTL8365MB_VLAN_MC_CONF1_FID_MSI_MSK, vlanmc_.fid)
        ELSE IF i = 2 THEN FieldClear(RTL8365MB_VLAN_MC_CONF2_VBPRI_MSK, buf[2])
                      + FIELD_PREP(RTL8365MB_VLAN_MC_CONF2_VBPRI_MSK, vlanmc_.priority)
        ELSE FieldClear(RTL8365MB_VLAN_MC_CONF3_EVID_MSK, buf[3])
                      + FIELD_PREP(RTL8365MB_VLAN_MC_CONF3_EVID_MSK, vlanmc_.vid)]

\* variant: the VLAN id of a slot is taken from word 2 instead of word 3
RECURSIVE vlanmc_scan_wrong_word(_, _, _, _)
vlanmc_scan_wrong_word(mc, vid, vlanmc_idx, first_unused) ==
    IF vlanmc_idx >= RTL8365MB_VLAN_MC_CONF_SIZE
    THEN [vlanmc_idx |-> vlanmc_idx, first_unused |-> first_unused]
    ELSE LET evid == FIELD_GET(RTL8365MB_VLAN_MC_CONF3_EVID_MSK, mc[vlanmc_idx][2])
         IN IF evid = vid
            THEN [vlanmc_idx |-> vlanmc_idx, first_unused |-> first_unused]
            ELSE vlanmc_scan_wrong_word(mc, vid, vlanmc_idx + 1,
                     IF evid = 0 /\ first_unused < 0 THEN vlanmc_idx
                     ELSE first_unused)

\* variant: the scan does not skip the reserved slot 0
RECURSIVE vlanmc_scan_from_zero(_, _, _, _)
vlanmc_scan_from_zero(mc, vid, vlanmc_idx, first_unused) ==
    LET idx == IF vlanmc_idx = 1 /\ first_unused = -1 THEN 0 ELSE vlanmc_idx IN
    IF idx >= RTL8365MB_VLAN_MC_CONF_SIZE
    THEN [vlanmc_idx |-> idx, first_unused |-> first_unused]
    ELSE LET evid == FIELD_GET(RTL8365MB_VLAN_MC_CONF3_EVID_MSK, mc[idx][3])
         IN IF evid = vid
            THEN [vlanmc_idx |-> idx, first_unused |-> first_unused]
            ELSE vlanmc_scan_from_zero(mc, vid, idx + 1,
                     IF evid = 0 /\ first_unused < 0 THEN idx
                     ELSE first_unused)

\* the scan loop of rtl8365mb_vlanmc_set, entered with vlanmc_idx = 1 and
\* first_unused = -1; leaves the index it stopped at and first_unused
RECURSIVE vlanmc_scan(_, _, _, _)
vlanmc_scan(mc, vid, vlanmc_idx, first_unused) ==
    IF vlanmc_idx >= RTL8365MB_VLAN_MC_CONF_SIZE
    THEN [vlanmc_idx |-> vlanmc_idx, first_unused |-> first_unused]
    ELSE LET evid == FIELD_GET(RTL8365MB_VLAN_MC_CONF3_EVID_MSK, mc[vlanmc_idx][3])
         IN IF evid = vid
            THEN [vlanmc_idx |-> vlanmc_idx, first_unused |-> first_unused]
            ELSE vlanmc_scan(mc, vid, vlanmc_idx + 1,
                     IF evid = 0 /\ first_unused < 0 THEN vlanmc_idx
                     ELSE first_unused)

\* variant: a slot is created whether or not the port uses the VLAN as PVID
slot_always_created(flags) ==
    FALSE

\* no slot is created for a VLAN until a port uses it as PVID
vlanmc_not_created(flags) ==
    ~flags.pvid

\* variant: a delete leaves the member bitmap as it was
new_member_never_cleared(seeded, port, include) ==
    IF include THEN BitOr(seeded, BIT(port)) ELSE seeded

\* vlanmc.member |= BIT(port) on add, &= ~BIT(port) on delete
vlanmc_new_member(seeded, port, include) ==
    IF include THEN BitOr(seeded, BIT(port)) ELSE BitAndNot(seeded, BIT(port))

\* variant: the CPU ports count as members when checking for an empty slot
entry_cleared_counting_cpu(member, include) ==
    ~include /\ member = 0

\* a delete that leaves no member besides the CPU ports clears the slot
vlanmc_entry_cleared(member, include) ==
    ~include /\ BitAndNot(member, dsa_cpu_ports) = 0

\* removing the VLAN used as PVID: any-frame goes back to tagged-only
frame_to_tagged(include, accepted_frame, pvid_vlanmc_idx, vlanmc_idx) ==
    /\ ~include
    /\ accepted_frame = RTL8365MB_FRAME_TYPE_ANY_FRAME
    /\ pvid_vlanmc_idx = vlanmc_idx

\* adding a PVID VLAN while untagged frames are ignored: accept any frame
frame_to_any(include, flags, accepted_frame) ==
    /\ include
    /\ flags.pvid
    /\ accepted_frame = RTL8365MB_FRAME_TYPE_TAGGED_ONLY

\* variant: the PVID register is rewritten on every PVID add
pvid_update_always(include, flags, vlanmc_idx, pvid_vlanmc_idx) ==
    include /\ flags.pvid

\* variant: the PVID register is never rewritten
pvid_update_never(include, flags, vlanmc_idx, pvid_vlanmc_idx) ==
    FALSE

\* the PVID register is rewritten only for a different slot index
pvid_update(include, flags, vlanmc_idx, pvid_vlanmc_idx) ==
    include /\ flags.pvid /\ vlanmc_idx # pvid_vlanmc_idx

\* the part of rtl8365mb_vlanmc_set after the slot index is settled:
\* vlan_entry is the staging buffer, vlan4k_ the members read from the by-ID row
vlanmc_commit(chip, port, vid, flags, include, vlanmc_idx, vlan_entry, vlan4k_, log0) ==
    LET pvid_vlanmc_idx ==
            FIELD_GET(RTL8365MB_VLAN_PVID_CTRL_MASK(port),
                      chip.pvid_ctrl[RTL8365MB_VLAN_PVID_CTRL_REG(port)])
        accepted_frame ==
            FIELD_GET(RTL8365MB_VLAN_ACCEPT_FRAME_TYPE_MASK(port),
                      chip.accept_frame_type[RTL8365MB_VLAN_ACCEPT_FRAME_TYPE_REG(port)])
        mc0 == rtl8365mb_buf_vlanmc(vlan_entry)
        seeded == BitOr(mc0.member, vlan4k_.member)
        member == vlanmc_new_member(seeded, port, include)
        mc1 == [mc0 EXCEPT !.member = member, !.vid = vid]
        entry == IF vlanmc_entry_cleared(member, include)
                 THEN ZeroRow(RTL8365MB_VLAN_MC_CONF_ENTRY_SIZE)
                 ELSE rtl8365mb_vlanmc_buf(mc1, vlan_entry)
        chip1 == [chip EXCEPT !.vlanmc[vlanmc_idx] = entry]
        log1 == log0 \o << <<"mc", vlanmc_idx>> >>
        to_tagged == frame_to_tagged(include, accepted_frame, pvid_vlanmc_idx, vlanmc_idx)
        to_any == frame_to_any(include, flags, accepted_frame)
        new_frame == IF to_tagged THEN RTL8365MB_FRAME_TYPE_TAGGED_ONLY
                     ELSE IF to_any THEN RTL8365MB_FRAME_TYPE_ANY_FRAME
                     ELSE accepted_frame
        accepted_frame_changed == to_tagged \/ to_any
        set_pvid == pvid_update(include, flags, vlanmc_idx, pvid_vlanmc_idx)
        chip2 == IF set_pvid
                 THEN [chip1 EXCEPT !.pvid_ctrl[RTL8365MB_VLAN_PVID_CTRL_REG(port)] =
                          regmap_update_bits(@, RTL8365MB_VLAN_PVID_CTRL_MASK(port),
                              vlanmc_idx * 2^RTL8365MB_VLAN_PVID_CTRL_OFFSET(port))]
                 ELSE chip1
        log2 == IF set_pvid
                THEN log1 \o << <<"pvid", RTL8365MB_VLAN_PVID_CTRL_REG(port)>> >>
                ELSE log1
        chip3 == IF accepted_frame_changed
                 THEN [chip2 EXCEPT
                          !.accept_frame_type[RTL8365MB_VLAN_ACCEPT_FRAME_TYPE_REG(port)] =
                          regmap_update_bits(@, RTL8365MB_VLAN_ACCEPT_FRAME_TYPE_MASK(port),
                              new_frame * 2^RTL8365MB_VLAN_ACCEPT_FRAME_TYPE_OFFSET(port))]
                 ELSE chip2
        log3 == IF accepted_frame_changed
                THEN log2 \o << <<"aft", RTL8365MB_VLAN_ACCEPT_FRAME_TYPE_REG(port)>> >>
                ELSE log2
    IN [ret |-> 0, chip |-> chip3, log |-> log3]

rtl8365mb_vlanmc_set(chip, port, vid, flags, include) ==
    IF vid > RTL8365MB_MAX_MC_VID
    THEN [ret |-> -EINVAL, chip |-> chip, log |-> <<>>]
    ELSE
    LET scan == vlanmc_scan(chip.vlanmc, vid, 1, -1)
        no_vlan4k == [member |-> 0, untag |-> 0, fid |-> 0]
    IN IF scan.vlanmc_idx = RTL8365MB_VLAN_MC_CONF_SIZE
       THEN \* no slot holds vid
            IF vlanmc_not_created(flags)
            THEN [ret |-> 0, chip |-> chip, log |-> <<>>]
            ELSE IF scan.first_unused < 0
            THEN [ret |-> -EINVAL, chip |-> chip, log |-> <<>>]
            ELSE IF vid <= RTL8365MB_MAX_4K_VID
            THEN LET rd == rtl8365mb_table_access(chip, RTL8365MB_TABLE_CVLAN,
                               RTL8365MB_TABLE_READ, vid,
                               ZeroRow(RTL8365MB_VLAN_MC_CONF_ENTRY_SIZE))
                 IN IF rd.ret # 0
                    THEN [ret |-> rd.ret, chip |-> rd.chip, log |-> rd.log]
                    ELSE vlanmc_commit(rd.chip, port, vid, flags, include,
                             scan.first_unused, rd.val,
                             rtl8365mb_buf_vlan4k(rd.val), rd.log)
            ELSE vlanmc_commit(chip, port, vid, flags, include,
                     scan.first_unused,
                     ZeroRow(RTL8365MB_VLAN_MC_CONF_ENTRY_SIZE), no_vlan4k, <<>>)
       ELSE vlanmc_commit(chip, port, vid, flags, include, scan.vlanmc_idx,
                chip.vlanmc[scan.vlanmc_idx], no_vlan4k, <<>>)

\* variant: a failed by-ID step returns at once, leaving the slot step in place
vlan_add_without_undo(chip, port, vid, flags) ==
    LET mc == rtl8365mb_vlanmc_set(chip, port, vid, flags, TRUE)
    IN IF mc.ret # 0 THEN mc
       ELSE LET k4 == rtl8365mb_vlan4k_set(mc.chip, port, vid, flags, TRUE)
            IN [ret |-> k4.ret, chip |-> k4.chip, log |-> mc.log \o k4.log]

rtl8365mb_vlan_add(chip, port, vid, flags) ==
    LET mc == rtl8365mb_vlanmc_set(chip, port, vid, flags, TRUE)
    IN IF mc.ret # 0 THEN mc
       ELSE LET k4 == rtl8365mb_vlan4k_set(mc.chip, port, vid, flags, TRUE)
            IN IF k4.ret # 0
               THEN LET undo == rtl8365mb_vlanmc_set(k4.chip, port, vid, flags, FALSE)
                    IN [ret |-> k4.ret, chip |-> undo.chip,
                        log |-> mc.log \o k4.log \o undo.log]
               ELSE [ret |-> 0, chip |-> k4.chip, log |-> mc.log \o k4.log]

rtl8365mb_vlan_del(chip, port, vid, flags) ==
    LET k4 == rtl8365mb_vlan4k_set(chip, port, vid, flags, FALSE)
        mc == rtl8365mb_vlanmc_set(k4.chip, port, vid, flags, FALSE)
    IN [ret |-> IF k4.ret # 0 \/ mc.ret # 0 THEN 1 ELSE 0,
        chip |-> mc.chip, log |-> k4.log \o mc.log]

(***************************************************************************)
(* Setup                                                                   *)
(***************************************************************************)
\* the chip after rtl8365mb_reset_chip: tables and VLAN registers all zero
ResetChip ==
    [vlan4k |-> [v \in Vids4k |-> ZeroRow(RTL8365MB_VLAN_4K_ENTRY_SIZE)],
     vlanmc |-> [i \in 0 .. (RTL8365MB_VLAN_MC_CONF_SIZE - 1) |->
                    ZeroRow(RTL8365MB_VLAN_MC_CONF_ENTRY_SIZE)],
     pvid_ctrl |-> [r \in 0 .. RTL8365MB_VLAN_PVID_CTRL_REG(RTL8365MB_MAX_NUM_PORTS - 1)
                      |-> 0],
     accept_frame_type |->
         [r \in 0 .. RTL8365MB_VLAN_ACCEPT_FRAME_TYPE_REG(RTL8365MB_MAX_NUM_PORTS - 1)
             |-> 0]]

rtl8365mb_vlan_init(chip) ==
    LET k4 == rtl8365mb_vlan4k_set(chip, CpuPort, 0,
                  [untagged |-> TRUE, pvid |-> FALSE], TRUE)
        vlanmc_idx == 0
        entry == rtl8365mb_vlanmc_buf([member |-> 0, fid |-> 0, priority |-> 0, vid |-> 0],
                     ZeroRow(RTL8365MB_VLAN_MC_CONF_ENTRY_SIZE))
    IN IF k4.ret # 0 THEN k4
       ELSE [ret |-> 0, chip |-> [k4.chip EXCEPT !.vlanmc[vlanmc_idx] = entry],
             log |-> k4.log \o << <<"mc", vlanmc_idx>> >>]

(***************************************************************************)
(* rtl8365mb_table_access, one register access at a time.  The chip        *)
(* executes a write command at once (the driver never waits after one) and *)
(* a read command in its own time: it raises the busy flag of the status   *)
(* register when it takes the command and, when done, loads the read-data  *)
(* registers, clears the flag and leaves a lookup address in the low bits  *)
(* of the status register.  Every regmap access may fail with -EIO.        *)
(***************************************************************************)
RTL8365MB_TABLE_CONTROL_TABLE_MASK == GENMASK(2, 0)
RTL8365MB_TABLE_CONTROL_COMMAND_MASK == GENMASK(3, 3)
RTL8365MB_TABLE_LUT_ADDR_MASK == GENMASK(10, 0)
RTL8365MB_TABLE_LUT_BUSY_FLAG_MASK == GENMASK(13, 13)
RTL8365MB_TABLE_10TH_DATA_REG_MASK == GENMASK(3, 0)

Callers == 1 .. NumCallers
TaTables == {0, RTL8365MB_TABLE_CVLAN, RTL8365MB_NUM_TABLES}
TaIndexes == {10, FIELD_MAX(RTL8365MB_TABLE_ACCESS_ADDR_REG_MASK) + 1}
TaRow(k) == [i \in 0 .. (RTL8365MB_VLAN_4K_ENTRY_SIZE - 1) |-> k * (i + 1)]
\* the row a write stages, and what a caller's buffer holds before a read
TaWriteRow == TaRow(1)
TaReadBuf == TaRow(2)
NoRow == [i \in {} |-> 0]
NoCall == [table |-> 0, op |-> RTL8365MB_TABLE_READ, index |-> 0, val |-> NoRow]
InTransaction == {"wdata", "poll1", "addr", "ctrl", "poll2", "rdata", "out"}

TaInit ==
    /\ table_lock = 0
    /\ ta_pc = [p \in Callers |-> "idle"]
    /\ ta_call = [p \in Callers |-> NoCall]
    /\ ta_ret = [p \in Callers |-> 0]
    /\ ta_lut = [p \in Callers |-> 0]
    /\ ta_polls = [p \in Callers |-> 0]
    /\ ta_expect = [p \in Callers |-> NoRow]
    /\ wr_data = ZeroRow(RTL8365MB_TABLE_DATA_REGS)
    /\ rd_data = ZeroRow(RTL8365MB_TABLE_DATA_REGS)
    /\ addr_reg = 0
    /\ ctrl_reg = 0
    /\ lut_reg = 0
    /\ hw_read = {}
    /\ ta_written = [v \in Vids4k |-> NoRow]

\* the checks made before the lock is taken
table_args_rejected(table, index) ==
    \/ table >= RTL8365MB_NUM_TABLES
    \/ ~FIELD_FIT(RTL8365MB_TABLE_ACCESS_ADDR_REG_MASK, index)

\* variant: mutex_lock that returns although the lock is held
mutex_lock_never_waits(lock) ==
    TRUE

\* mutex_lock returns once the lock is free
mutex_lock_can_take(lock) ==
    lock = 0

\* the condition of both busy-polls: !FIELD_PREP(BUSY_FLAG_MASK, lut)
poll_cond(lut) ==
    FIELD_PREP(RTL8365MB_TABLE_LUT_BUSY_FLAG_MASK, lut) = 0

\* words of val written to the staging registers by regmap_bulk_write and,
\* for a 10-word row, the 4 low bits of the 10th by regmap_update_bits
stage_row(regs, val, val_size) ==
    LET n == IF val_size = 10 THEN 9 ELSE val_size
    IN [i \in DOMAIN regs |->
           IF i < n THEN val[i]
           ELSE IF i = 9 /\ val_size = 10
           THEN regmap_update_bits(regs[i], RTL8365MB_TABLE_10TH_DATA_REG_MASK,
                    FIELD_PREP(RTL8365MB_TABLE_10TH_DATA_REG_MASK, val[9]))
           ELSE regs[i]]

\* words copied from the read-data registers into val
fetch_row(val, regs, val_size) ==
    [i \in DOMAIN val |->
        IF i >= val_size THEN val[i]
        ELSE IF i = 9 /\ val_size = 10
        THEN MaskAnd(RTL8365MB_TABLE_10TH_DATA_REG_MASK, regs[i])
        ELSE regs[i]]

TaKeep(p) ==
    UNCHANGED <<vlanmc, pvid_ctrl, accept_frame_type, last, nreq, st_vars,
                ext_vars>>

TaFail(p, err) ==
    /\ ta_ret' = [ta_ret EXCEPT ![p] = err]
    /\ ta_pc' = [ta_pc EXCEPT ![p] = "out"]

\* entry: argument checks, lines 953-959
TaEnter(p) ==
    /\ ta_pc[p] = "idle"
    /\ \E table \in TaTables, op \in {RTL8365MB_TABLE_READ, RTL8365MB_TABLE_WRITE},
          index \in TaIndexes :
          /\ ta_call' = [ta_call EXCEPT ![p] =
                 [table |-> table, op |-> op, index |-> index,
                  val |-> IF op = RTL8365MB_TABLE_WRITE THEN TaWriteRow
                          ELSE TaReadBuf]]
          /\ IF table_args_rejected(table, index)
             THEN /\ ta_ret' = [ta_ret EXCEPT ![p] = -EINVAL]
                  /\ ta_pc' = [ta_pc EXCEPT ![p] = "ret"]
             ELSE /\ ta_ret' = [ta_ret EXCEPT ![p] = 0]
                  /\ ta_pc' = [ta_pc EXCEPT ![p] = "lock"]
    /\ UNCHANGED <<table_lock, ta_lut, ta_polls, ta_expect, wr_data, rd_data,
                   addr_reg, ctrl_reg, lut_reg, hw_read, ta_written, vlan4k>>
    /\ TaKeep(p)

\* mutex_lock(&mb->table_lock), line 961
TaLock(p) ==
    /\ ta_pc[p] = "lock"
    /\ mutex_lock_can_take(table_lock)
    /\ table_lock' = p
    /\ ta_pc' = [ta_pc EXCEPT ![p] =
          IF ta_call[p].op = RTL8365MB_TABLE_WRITE THEN "wdata" ELSE "poll1"]
    /\ ta_polls' = [ta_polls EXCEPT ![p] = 0]
    /\ UNCHANGED <<ta_call, ta_ret, ta_lut, ta_expect, wr_data, rd_data,
                   addr_reg, ctrl_reg, lut_reg, hw_read, ta_written, vlan4k>>
    /\ TaKeep(p)

\* staging the row of a write, lines 962-977
TaWriteData(p) ==
    /\ ta_pc[p] = "wdata"
    /\ \E ok \in BOOLEAN :
          IF ok
          THEN /\ wr_data' = stage_row(wr_data, ta_call[p].val,
                                 rtl8365mb_table_entry_size(ta_call[p].table))
               /\ ta_pc' = [ta_pc EXCEPT ![p] = "addr"]
               /\ UNCHANGED ta_ret
          ELSE TaFail(p, -EIO) /\ UNCHANGED wr_data
    /\ UNCHANGED <<table_lock, ta_call, ta_lut, ta_polls, ta_expect, rd_data,
                   addr_reg, ctrl_reg, lut_reg, hw_read, ta_written, vlan4k>>
    /\ TaKeep(p)

\* one status read of regmap_read_poll_timeout, lines 980-986 and 1009-1015
TaPoll(p) ==
    /\ ta_pc[p] \in {"poll1", "poll2"}
    /\ \E ok \in BOOLEAN :
          IF ~ok
          THEN TaFail(p, -EIO) /\ UNCHANGED <<ta_lut, ta_polls>>
          ELSE /\ ta_lut' = [ta_lut EXCEPT ![p] = lut_reg]
               /\ IF poll_cond(lut_reg)
                  THEN /\ ta_pc' = [ta_pc EXCEPT ![p] =
                              IF ta_pc[p] = "poll1" THEN "addr" ELSE "rdata"]
                       /\ UNCHANGED <<ta_ret, ta_polls>>
                  ELSE IF ta_polls[p] + 1 >= PollBound
                  THEN TaFail(p, -ETIMEDOUT) /\ UNCHANGED ta_polls
                  ELSE /\ ta_polls' = [ta_polls EXCEPT ![p] = @ + 1]
                       /\ UNCHANGED <<ta_pc, ta_ret>>
    /\ UNCHANGED <<table_lock, ta_call, ta_expect, wr_data, rd_data,
                   addr_reg, ctrl_reg, lut_reg, hw_read, ta_written, vlan4k>>
    /\ TaKeep(p)

\* programming the address register, lines 989-993
TaAddr(p) ==
    /\ ta_pc[p] = "addr"
    /\ \E ok \in BOOLEAN :
          IF ok
          THEN /\ addr_reg' = FIELD_PREP(RTL8365MB_TABLE_ACCESS_ADDR_REG_MASK,
                                  ta_call[p].index)
               /\ ta_pc' = [ta_pc EXCEPT ![p] = "ctrl"]
               /\ UNCHANGED ta_ret
          ELSE TaFail(p, -EIO) /\ UNCHANGED addr_reg
    /\ UNCHANGED <<table_lock, ta_call, ta_lut, ta_polls, ta_expect, wr_data,
                   rd_data, ctrl_reg, lut_reg, hw_read, ta_written, vlan4k>>
    /\ TaKeep(p)

\* the row of the by-ID table the chip holds for a command, if it has one
hw_has_row(table, index) ==
    table = RTL8365MB_TABLE_CVLAN /\ index \in Vids4k

\* issuing the command, lines 995-1002; the chip takes it at once
TaCtrl(p) ==
    /\ ta_pc[p] = "ctrl"
    /\ \E ok \in BOOLEAN :
          IF ~ok
          THEN /\ TaFail(p, -EIO)
               /\ UNCHANGED <<ctrl_reg, lut_reg, hw_read, ta_written, vlan4k,
                              ta_expect, ta_polls>>
          ELSE LET c == ta_call[p]
                   ctrl == regmap_update_bits(
                               regmap_update_bits(ctrl_reg,
                                   RTL8365MB_TABLE_CONTROL_COMMAND_MASK,
                                   FIELD_PREP(RTL8365MB_TABLE_CONTROL_COMMAND_MASK, c.op)),
                               RTL8365MB_TABLE_CONTROL_TABLE_MASK,
                               FIELD_PREP(RTL8365MB_TABLE_CONTROL_TABLE_MASK, c.table))
                   table == FIELD_GET(RTL8365MB_TABLE_CONTROL_TABLE_MASK, ctrl)
                   row == [i \in 0 .. (RTL8365MB_VLAN_4K_ENTRY_SIZE - 1) |-> wr_data[i]]
               IN /\ ctrl_reg' = ctrl
                  /\ IF c.op = RTL8365MB_TABLE_WRITE
                     THEN /\ IF hw_has_row(table, addr_reg)
                             THEN /\ vlan4k' = [vlan4k EXCEPT ![addr_reg] = row]
                                  /\ ta_written' = [ta_written EXCEPT ![addr_reg] = row]
                             ELSE UNCHANGED <<vlan4k, ta_written>>
                          /\ ta_ret' = [ta_ret EXCEPT ![p] = 0]
                          /\ ta_pc' = [ta_pc EXCEPT ![p] = "out"]
                          /\ UNCHANGED <<lut_reg, hw_read, ta_expect, ta_polls>>
                     ELSE /\ lut_reg' = BitOr(lut_reg,
                                 FIELD_PREP(RTL8365MB_TABLE_LUT_BUSY_FLAG_MASK, 1))
                          /\ hw_read' = {[table |-> table, index |-> addr_reg]}
                          /\ ta_expect' = [ta_expect EXCEPT ![p] =
                                 IF hw_has_row(table, addr_reg)
                                 THEN ta_written[addr_reg] ELSE NoRow]
                          /\ ta_polls' = [ta_polls EXCEPT ![p] = 0]
                          /\ ta_pc' = [ta_pc EXCEPT ![p] = "poll2"]
                          /\ UNCHANGED <<ta_ret, vlan4k, ta_written>>
    /\ UNCHANGED <<table_lock, ta_call, ta_lut, wr_data, rd_data, addr_reg>>
    /\ TaKeep(p)

\* copying the row of a read out of the read-data registers, lines 1017-1026
TaReadData(p) ==
    /\ ta_pc[p] = "rdata"
    /\ \E ok \in BOOLEAN :
          IF ok
          THEN /\ ta_call' = [ta_call EXCEPT ![p].val =
                      fetch_row(@, rd_data, rtl8365mb_table_entry_size(ta_call[p].table))]
               /\ ta_ret' = [ta_ret EXCEPT ![p] = 0]
               /\ ta_pc' = [ta_pc EXCEPT ![p] = "out"]
          ELSE TaFail(p, -EIO) /\ UNCHANGED ta_call
    /\ UNCHANGED <<table_lock, ta_lut, ta_polls, ta_expect, wr_data, rd_data,
                   addr_reg, ctrl_reg, lut_reg, hw_read, ta_written, vlan4k>>
    /\ TaKeep(p)

\* out: mutex_unlock(&mb->table_lock) and return ret, lines 1028-1030;
\* the caller may then call again
TaUnlock(p) ==
    /\ ta_pc[p] = "out"
    /\ table_lock' = 0
    /\ ta_pc' = [ta_pc EXCEPT ![p] = "idle"]
    /\ ta_call' = [ta_call EXCEPT ![p] = NoCall]
    /\ ta_ret' = [ta_ret EXCEPT ![p] = 0]
    /\ ta_lut' = [ta_lut EXCEPT ![p] = 0]
    /\ ta_polls' = [ta_polls EXCEPT ![p] = 0]
    /\ ta_expect' = [ta_expect EXCEPT ![p] = NoRow]
    /\ UNCHANGED <<wr_data, rd_data, addr_reg, ctrl_reg, lut_reg,
                   hw_read, ta_written, vlan4k>>
    /\ TaKeep(p)

\* a call rejected at entry has returned -EINVAL; the caller may call again
TaReturn(p) ==
    /\ ta_pc[p] = "ret"
    /\ ta_pc' = [ta_pc EXCEPT ![p] = "idle"]
    /\ ta_call' = [ta_call EXCEPT ![p] = NoCall]
    /\ ta_ret' = [ta_ret EXCEPT ![p] = 0]
    /\ UNCHANGED <<table_lock, ta_lut, ta_polls, ta_expect, wr_data, rd_data,
                   addr_reg, ctrl_reg, lut_reg, hw_read, ta_written, vlan4k>>
    /\ TaKeep(p)

\* the chip finishes the read command it is executing
HwComplete ==
    /\ hw_read # {}
    /\ \E cmd \in hw_read, lut_addr \in {0, 1} :
          /\ rd_data' = IF hw_has_row(cmd.table, cmd.index)
                        THEN [i \in DOMAIN rd_data |->
                                 IF i < RTL8365MB_VLAN_4K_ENTRY_SIZE
                                 THEN vlan4k[cmd.index][i] ELSE rd_data[i]]
                        ELSE rd_data
          /\ lut_reg' = FIELD_PREP(RTL8365MB_TABLE_LUT_ADDR_MASK, lut_addr)
    /\ hw_read' = {}
    /\ UNCHANGED <<table_lock, ta_pc, ta_call, ta_ret, ta_lut, ta_polls, ta_expect,
                   wr_data, addr_reg, ctrl_reg, ta_written, vlan4k>>
    /\ UNCHANGED <<vlanmc, pvid_ctrl, accept_frame_type, last, nreq, st_vars,
                   ext_vars>>

TaNext ==
    \/ \E p \in Callers :
          \/ TaEnter(p) \/ TaLock(p) \/ TaWriteData(p) \/ TaPoll(p) \/ TaAddr(p)
          \/ TaCtrl(p) \/ TaReadData(p) \/ TaUnlock(p) \/ TaReturn(p)
    \/ HwComplete


(***************************************************************************)
(* Statistics: rtl8365mb_stats_update, rtl8365mb_stats_poll and            *)
(* rtl8365mb_get_stats64.  A u64 is kept as four 16-bit words, least       *)
(* significant first, the words rtl8365mb_mib_counter_read assembles it    *)
(* from; sums and differences wrap at 2^64 as in C.                        *)
(***************************************************************************)
U64(n) == <<n % 2^16, (n \div 2^16) % 2^16, 0, 0>>

u64_add(a, b) ==
    LET s1 == a[1] + b[1]
        s2 == a[2] + b[2] + s1 \div 2^16
        s3 == a[3] + b[3] + s2 \div 2^16
        s4 == a[4] + b[4] + s3 \div 2^16
    IN  <<s1 % 2^16, s2 % 2^16, s3 % 2^16, s4 % 2^16>>

u64_sub(a, b) ==
    u64_add(u64_add(a, [i \in 1 .. 4 |-> 2^16 - 1 - b[i]]), U64(1))

\* 4 * a
u64_mul4(a) == LET d == u64_add(a, a) IN u64_add(d, d)

\* the counters marked in cnt[], in the order of enum rtl8365mb_mib_counter_index
MibOrder ==
    << "ifInOctets", "dot3StatsFCSErrors", "etherStatsFragments",
       "etherStatsJabbers", "ifInUcastPkts", "etherStatsDropEvents",
       "ifInMulticastPkts", "ifInBroadcastPkts", "ifOutOctets",
       "dot3StatsLateCollisions", "etherStatsCollisions", "ifOutDiscards",
       "ifOutUcastPkts", "ifOutMulticastPkts", "ifOutBroadcastPkts" >>

MibMarked == {MibOrder[i] : i \in 1 .. Len(MibOrder)}

\* cnt[] as declared: every required counter marked with 1
CntMarks == [c \in MibMarked |-> U64(1)]

\* the fields of the snapshot, in the order stats_update assigns them
StatFields ==
    << "rx_packets", "tx_packets", "rx_bytes", "tx_bytes", "rx_dropped",
       "tx_dropped", "multicast", "collisions", "rx_length_errors",
       "rx_crc_errors", "rx_errors", "tx_aborted_errors", "tx_window_errors",
       "tx_errors" >>

StatFieldSet == {StatFields[i] : i \in 1 .. Len(StatFields)}

\* the zeroed snapshot of a port that has not been polled yet
StatsInit == [f \in StatFieldSet |-> U64(0)]

\* the caller's buffer before rtl8365mb_get_stats64 fills it
StatsNone == [f \in StatFieldSet |-> U64(2^16 - 1)]

\* what the chip holds in counter c of the port after g advances; discards
\* outgrow the received packets
MibValue(g, c) == U64(IF c = "ifOutDiscards" THEN 8 * g ELSE g + 1)

\* outcomes of one rtl8365mb_mib_counter_read
MibReadResults == {0, -EIO, -ETIMEDOUT}

\* the right-hand side of the assignment to stats->f
stats_field_value(f, cnt, st) ==
    CASE f = "rx_packets" ->
            u64_sub(u64_add(u64_add(cnt["ifInUcastPkts"],
                                    cnt["ifInMulticastPkts"]),
                            cnt["ifInBroadcastPkts"]),
                    cnt["ifOutDiscards"])
      [] f = "tx_packets" ->
            u64_add(u64_add(cnt["ifOutUcastPkts"], cnt["ifOutMulticastPkts"]),
                    cnt["ifOutBroadcastPkts"])
      [] f = "rx_bytes" ->
            u64_sub(cnt["ifInOctets"], u64_mul4(st.rx_packets))
      [] f = "tx_bytes" ->
            u64_sub(cnt["ifOutOctets"], u64_mul4(st.tx_packets))
      [] f = "rx_dropped" -> cnt["etherStatsDropEvents"]
      [] f = "tx_dropped" -> cnt["ifOutDiscards"]
      [] f = "multicast" -> cnt["ifInMulticastPkts"]
      [] f = "collisions" -> cnt["etherStatsCollisions"]
      [] f = "rx_length_errors" ->
            u64_add(cnt["etherStatsFragments"], cnt["etherStatsJabbers"])
      [] f = "rx_crc_errors" -> cnt["dot3StatsFCSErrors"]
      [] f = "rx_errors" -> u64_add(st.rx_length_errors, st.rx_crc_errors)
      [] f = "tx_aborted_errors" -> cnt["ifOutDiscards"]
      [] f = "tx_window_errors" -> cnt["dot3StatsLateCollisions"]
      [] f = "tx_errors" -> u64_add(st.tx_aborted_errors, st.tx_window_errors)

\* an update that published although a counter read failed
ret_ignored(ret) == FALSE

\* if (ret) return;
stats_update_returns_early(ret) == ret # 0

\* a spinlock that lets everyone in
spin_lock_never_spins(lock) == TRUE

\* spin_lock(&p->stats_lock) gets past a free lock only
spin_lock_can_take(lock) == lock = "free"

StInit ==
    /\ mib_lock = "free"
    /\ stats_lock = "free"
    /\ mib_gen = 0
    /\ su_pc = "idle"
    /\ su_i = 1
    /\ su_cnt = CntMarks
    /\ su_ret = 0
    /\ su_f = 1
    /\ stats = StatsInit
    /\ gs_pc = "idle"
    /\ gs_s = StatsNone
    /\ st_before = StatsInit
    /\ st_published = {StatsInit}
    /\ st_ncycles = 0

StKeep == UNCHANGED <<vlan_vars, ta_vars, ext_vars>>

\* the delayed work fires: rtl8365mb_stats_poll enters rtl8365mb_stats_update
SuStart ==
    /\ su_pc = "idle"
    /\ st_ncycles < MaxCycles
    /\ su_pc' = "mib_lock"
    /\ su_cnt' = CntMarks
    /\ su_i' = 1
    /\ su_f' = 1
    /\ su_ret' = 0
    /\ st_before' = stats
    /\ UNCHANGED <<mib_lock, stats_lock, mib_gen, stats, gs_pc, gs_s,
                   st_published, st_ncycles>>
    /\ StKeep

\* mutex_lock(&mb->mib_lock)
SuMibLock ==
    /\ su_pc = "mib_lock"
    /\ mib_lock = "free"
    /\ mib_lock' = "update"
    /\ su_pc' = "read"
    /\ UNCHANGED <<stats_lock, mib_gen, su_i, su_cnt, su_ret, su_f, stats,
                   gs_pc, gs_s, st_before, st_published, st_ncycles>>
    /\ StKeep

\* one pass of the loop: the read of the next marked counter
SuRead ==
    /\ su_pc = "read"
    /\ \E ret \in MibReadResults :
          /\ su_ret' = ret
          /\ IF ret = 0
             THEN /\ su_cnt' = [su_cnt EXCEPT ![MibOrder[su_i]] =
                                   MibValue(mib_gen, MibOrder[su_i])]
                  /\ IF su_i < Len(MibOrder)
                     THEN su_i' = su_i + 1 /\ su_pc' = "read"
                     ELSE su_i' = su_i /\ su_pc' = "mib_unlock"
             ELSE /\ su_pc' = "mib_unlock"
                  /\ UNCHANGED <<su_cnt, su_i>>
    /\ UNCHANGED <<mib_lock, stats_lock, mib_gen, su_f, stats, gs_pc, gs_s,
                   st_before, st_published, st_ncycles>>
    /\ StKeep

\* an update that keeps mib_lock while it publishes
SuMibUnlockSkipped ==
    /\ su_pc = "mib_unlock"
    /\ su_pc' = IF stats_update_returns_early(su_ret) THEN "done"
                ELSE "spin_lock"
    /\ UNCHANGED <<mib_lock, stats_lock, mib_gen, su_i, su_cnt, su_ret, su_f,
                   stats, gs_pc, gs_s, st_before, st_published, st_ncycles>>
    /\ StKeep

\* mutex_unlock(&mb->mib_lock); if (ret) return;
SuMibUnlock ==
    /\ su_pc = "mib_unlock"
    /\ mib_lock' = "free"
    /\ su_pc' = IF stats_update_returns_early(su_ret) THEN "done"
                ELSE "spin_lock"
    /\ UNCHANGED <<stats_lock, mib_gen, su_i, su_cnt, su_ret, su_f, stats,
                   gs_pc, gs_s, st_before, st_published, st_ncycles>>
    /\ StKeep

\* spin_lock(&mb->ports[port].stats_lock)
SuSpinLock ==
    /\ su_pc = "spin_lock"
    /\ spin_lock_can_take(stats_lock)
    /\ stats_lock' = "update"
    /\ su_pc' = "assign"
    /\ su_f' = 1
    /\ UNCHANGED <<mib_lock, mib_gen, su_i, su_cnt, su_ret, stats, gs_pc, gs_s,
                   st_before, st_published, st_ncycles>>
    /\ StKeep

\* the next assignment to a field of the snapshot
SuAssign ==
    /\ su_pc = "assign"
    /\ stats' = [stats EXCEPT ![StatFields[su_f]] =
                    stats_field_value(StatFields[su_f], su_cnt, stats)]
    /\ IF su_f < Len(StatFields)
       THEN su_f' = su_f + 1 /\ su_pc' = "assign"
       ELSE su_f' = su_f /\ su_pc' = "spin_unlock"
    /\ UNCHANGED <<mib_lock, stats_lock, mib_gen, su_i, su_cnt, su_ret,
                   gs_pc, gs_s, st_before, st_published, st_ncycles>>
    /\ StKeep

\* spin_unlock(&mb->ports[port].stats_lock)
SuSpinUnlock ==
    /\ su_pc = "spin_unlock"
    /\ stats_lock' = "free"
    /\ st_published' = st_published \cup {stats}
    /\ su_pc' = "done"
    /\ UNCHANGED <<mib_lock, mib_gen, su_i, su_cnt, su_ret, su_f, stats,
                   gs_pc, gs_s, st_before, st_ncycles>>
    /\ StKeep

\* schedule_delayed_work(&p->mib_work, RTL8365MB_STATS_INTERVAL_JIFFIES)
SuReschedule ==
    /\ su_pc = "done"
    /\ su_pc' = "idle"
    /\ st_ncycles' = st_ncycles + 1
    /\ UNCHANGED <<mib_lock, stats_lock, mib_gen, su_i, su_cnt, su_ret, su_f,
                   stats, gs_pc, gs_s, st_before, st_published>>
    /\ StKeep

\* rtl8365mb_get_stats64: spin_lock(&p->stats_lock)
GsSpinLock ==
    /\ gs_pc = "idle"
    /\ spin_lock_can_take(stats_lock)
    /\ stats_lock' = "reader"
    /\ gs_pc' = "memcpy"
    /\ UNCHANGED <<mib_lock, mib_gen, su_pc, su_i, su_cnt, su_ret, su_f,
                   stats, gs_s, st_before, st_published, st_ncycles>>
    /\ StKeep

\* memcpy(s, &p->stats, sizeof(*s))
GsMemcpy ==
    /\ gs_pc = "memcpy"
    /\ gs_s' = stats
    /\ gs_pc' = "spin_unlock"
    /\ UNCHANGED <<mib_lock, stats_lock, mib_gen, su_pc, su_i, su_cnt, su_ret,
                   su_f, stats, st_before, st_published, st_ncycles>>
    /\ StKeep

\* spin_unlock(&p->stats_lock) and the return to the caller, who consumes s
GsSpinUnlock ==
    /\ gs_pc = "spin_unlock"
    /\ stats_lock' = "free"
    /\ gs_pc' = "idle"
    /\ gs_s' = StatsNone
    /\ UNCHANGED <<mib_lock, mib_gen, su_pc, su_i, su_cnt, su_ret, su_f,
                   stats, st_before, st_published, st_ncycles>>
    /\ StKeep

\* traffic: the chip's counters of the port advance
HwCount ==
    /\ mib_gen < MaxGen
    /\ mib_gen' = mib_gen + 1
    /\ UNCHANGED <<mib_lock, stats_lock, su_pc, su_i, su_cnt, su_ret, su_f,
                   stats, gs_pc, gs_s, st_before, st_published, st_ncycles>>
    /\ StKeep

StNext ==
    \/ SuStart \/ SuMibLock \/ SuRead \/ SuMibUnlock \/ SuSpinLock
    \/ SuAssign \/ SuSpinUnlock \/ SuReschedule
    \/ GsSpinLock \/ GsMemcpy \/ GsSpinUnlock
    \/ HwCount


(***************************************************************************)
(* MIB counter reads: rtl8365mb_mib_counter_read and its callers, the      *)
(* scheduled rtl8365mb_stats_update of a port and the on-demand            *)
(* get_ethtool_stats, get_mac_stats, get_phy_stats and get_ctrl_stats.     *)
(***************************************************************************)
rtl8365mb_mib_counters ==
    << [offset |-> 0, length |-> 4, name |-> "ifInOctets"],
       [offset |-> 4, length |-> 2, name |-> "dot3StatsFCSErrors"],
       [offset |-> 6, length |-> 2, name |-> "dot3StatsSymbolErrors"],
       [offset |-> 8, length |-> 2, name |-> "dot3InPauseFrames"],
       [offset |-> 10, length |-> 2, name |-> "dot3ControlInUnknownOpcodes"],
       [offset |-> 12, length |-> 2, name |-> "etherStatsFragments"],
       [offset |-> 14, length |-> 2, name |-> "etherStatsJabbers"],
       [offset |-> 16, length |-> 2, name |-> "ifInUcastPkts"],
       [offset |-> 18, length |-> 2, name |-> "etherStatsDropEvents"],
       [offset |-> 20, length |-> 2, name |-> "ifInMulticastPkts"],
       [offset |-> 22, length |-> 2, name |-> "ifInBroadcastPkts"],
       [offset |-> 24, length |-> 2, name |-> "inMldChecksumError"],
       [offset |-> 26, length |-> 2, name |-> "inIgmpChecksumError"],
       [offset |-> 28, length |-> 2, name |-> "inMldSpecificQuery"],
       [offset |-> 30, length |-> 2, name |-> "inMldGeneralQuery"],
       [offset |-> 32, length |-> 2, name |-> "inIgmpSpecificQuery"],
       [offset |-> 34, length |-> 2, name |-> "inIgmpGeneralQuery"],
       [offset |-> 36, length |-> 2, name |-> "inMldLeaves"],
       [offset |-> 38, length |-> 2, name |-> "inIgmpLeaves"],
       [offset |-> 40, length |-> 4, name |-> "etherStatsOctets"],
       [offset |-> 44, length |-> 2, name |-> "etherStatsUnderSizePkts"],
       [offset |-> 46, length |-> 2, name |-> "etherOversizeStats"],
       [offset |-> 48, length |-> 2, name |-> "etherStatsPkts64Octets"],
       [offset |-> 50, length |-> 2, name |-> "etherStatsPkts65to127Octets"],
       [offset |-> 52, length |-> 2, name |-> "etherStatsPkts128to255Octets"],
       [offset |-> 54, length |-> 2, name |-> "etherStatsPkts256to511Octets"],
       [offset |-> 56, length |-> 2, name |-> "etherStatsPkts512to1023Octets"],
       [offset |-> 58, length |-> 2, name |-> "etherStatsPkts1024to1518Octets"],
       [offset |-> 60, length |-> 4, name |-> "ifOutOctets"],
       [offset |-> 64, length |-> 2, name |-> "dot3StatsSingleCollisionFrames"],
       [offset |-> 66, length |-> 2, name |-> "dot3StatsMultipleCollisionFrames"],
       [offset |-> 68, length |-> 2, name |-> "dot3StatsDeferredTransmissions"],
       [offset |-> 70, length |-> 2, name |-> "dot3StatsLateCollisions"],
       [offset |-> 72, length |-> 2, name |-> "etherStatsCollisions"],
       [offset |-> 74, length |-> 2, name |-> "dot3StatsExcessiveCollisions"],
       [offset |-> 76, length |-> 2, name |-> "dot3OutPauseFrames"],
       [offset |-> 78, length |-> 2, name |-> "ifOutDiscards"],
       [offset |-> 80, length |-> 2, name |-> "dot1dTpPortInDiscards"],
       [offset |-> 82, length |-> 2, name |-> "ifOutUcastPkts"],
       [offset |-> 84, length |-> 2, name |-> "ifOutMulticastPkts"],
       [offset |-> 86, length |-> 2, name |-> "ifOutBroadcastPkts"],
       [offset |-> 88, length |-> 2, name |-> "outOampduPkts"],
       [offset |-> 90, length |-> 2, name |-> "inOampduPkts"],
       [offset |-> 92, length |-> 4, name |-> "inIgmpJoinsSuccess"],
       [offset |-> 96, length |-> 2, name |-> "inIgmpJoinsFail"],
       [offset |-> 98, length |-> 2, name |-> "inMldJoinsSuccess"],
       [offset |-> 100, length |-> 2, name |-> "inMldJoinsFail"],
       [offset |-> 102, length |-> 2, name |-> "inReportSuppressionDrop"],
       [offset |-> 104, length |-> 2, name |-> "inLeaveSuppressionDrop"],
       [offset |-> 106, length |-> 2, name |-> "outIgmpReports"],
       [offset |-> 108, length |-> 2, name |-> "outIgmpLeaves"],
       [offset |-> 110, length |-> 2, name |-> "outIgmpGeneralQuery"],
       [offset |-> 112, length |-> 2, name |-> "outIgmpSpecificQuery"],
       [offset |-> 114, length |-> 2, name |-> "outMldReports"],
       [offset |-> 116, length |-> 2, name |-> "outMldLeaves"],
       [offset |-> 118, length |-> 2, name |-> "outMldGeneralQuery"],
       [offset |-> 120, length |-> 2, name |-> "outMldSpecificQuery"],
       [offset |-> 122, length |-> 2, name |-> "inKnownMulticastPkts"] >>

\* the counters get_mac_stats marks in its cnt[]
MacMarked ==
    { "ifOutOctets", "ifOutUcastPkts", "ifOutMulticastPkts",
      "ifOutBroadcastPkts", "dot3OutPauseFrames", "ifOutDiscards",
      "ifInOctets", "ifInUcastPkts", "ifInMulticastPkts", "ifInBroadcastPkts",
      "dot3InPauseFrames", "dot3StatsSingleCollisionFrames",
      "dot3StatsMultipleCollisionFrames", "dot3StatsFCSErrors",
      "dot3StatsDeferredTransmissions", "dot3StatsLateCollisions",
      "dot3StatsExcessiveCollisions" }

\* indexes of the counters named in S, in table order
MibIndexes(S) ==
    SelectSeq([i \in 1 .. Len(rtl8365mb_mib_counters) |-> i],
              LAMBDA i : rtl8365mb_mib_counters[i].name \in S)

MibKinds == {"update", "ethtool", "mac", "phy", "ctrl"}

\* path -> the counters it reads, in order
MibLists ==
    [k \in MibKinds |->
        CASE k = "update" -> MibIndexes(MibMarked)
          [] k = "ethtool" -> [i \in 1 .. Len(rtl8365mb_mib_counters) |-> i]
          [] k = "mac" -> MibIndexes(MacMarked)
          [] k = "phy" -> MibIndexes({"dot3StatsSymbolErrors"})
          [] k = "ctrl" -> MibIndexes({"dot3ControlInUnknownOpcodes"})]

NoMibCall == [kind |-> "none", port |-> 0]

\* ((RTL8365MB_MIB_ADDRESS_PORT_OFFSET) * (_p) + (_x)) >> 2
RTL8365MB_MIB_ADDRESS(port, offset) ==
    (RTL8365MB_MIB_ADDRESS_PORT_OFFSET * port + offset) \div 4

\* val & mask, for a mask of one bit
MaskSet(val, mask) == (val \div mask) % 2 = 1

\* word k of the 64-bit window the chip keeps at counter address a
SramWord(a, k) == (4 * a + k + 1) % 2^16

\* *mibvalue before the read: the mark in cnt[]
MibUntouched == U64(1)

\* a mutex that lets everyone in
mib_lock_never_waits(lock) == TRUE

\* mutex_lock(&mb->mib_lock) gets past a free lock only
mib_lock_can_take(lock) == lock = "free"

\* positions between mutex_lock and mutex_unlock of mib_lock
MibLocked == {"addr", "poll", "data", "unlock"}

\* positions of a read after its address write
MibAddressed == {"poll", "data"}

McCounter(p) == rtl8365mb_mib_counters[MibLists[mc_call[p].kind][mc_i[p]]]

McInit ==
    /\ mc_pc = [p \in Callers |-> "idle"]
    /\ mc_call = [p \in Callers |-> NoMibCall]
    /\ mc_i = [p \in Callers |-> 1]
    /\ mc_ret = [p \in Callers |-> 0]
    /\ mc_polls = [p \in Callers |-> 0]
    /\ mc_val = [p \in Callers |-> 0]
    /\ mc_tmp = [p \in Callers |-> U64(0)]
    /\ mc_w = [p \in Callers |-> 0]
    /\ mc_out = [p \in Callers |-> MibUntouched]
    /\ mib_address_reg = 0
    /\ mib_ctrl0_reg = 0
    /\ mib_counter_regs = [k \in 0 .. 3 |-> 0]

McKeep ==
    UNCHANGED <<vlan_vars, ta_vars, st_rest, wk_vars, ih_vars, is_vars,
                vf_vars, later_vars>>

\* rtl8365mb_mib_counter_read returns ret to the loop of its caller: a
\* failed read or the last counter ends the loop
McReadReturns(p, ret) ==
    /\ mc_ret' = [mc_ret EXCEPT ![p] = ret]
    /\ IF ret # 0 \/ mc_i[p] = Len(MibLists[mc_call[p].kind])
       THEN mc_pc' = [mc_pc EXCEPT ![p] = "unlock"] /\ mc_i' = mc_i
       ELSE /\ mc_pc' = [mc_pc EXCEPT ![p] = "addr"]
            /\ mc_i' = [mc_i EXCEPT ![p] = mc_i[p] + 1]

\* a path is entered; the work of a port never runs twice at a time
McEnter(p) ==
    /\ mc_pc[p] = "idle"
    /\ \E kind \in MibKinds, port \in UserPorts :
          /\ kind = "update" =>
                \A q \in Callers : mc_call[q] # [kind |-> kind, port |-> port]
          /\ mc_call' = [mc_call EXCEPT ![p] = [kind |-> kind, port |-> port]]
    /\ mc_pc' = [mc_pc EXCEPT ![p] = "lock"]
    /\ UNCHANGED <<mib_lock, mc_i, mc_ret, mc_polls, mc_val, mc_tmp, mc_w,
                   mc_out, mib_address_reg, mib_ctrl0_reg, mib_counter_regs>>
    /\ McKeep

\* mutex_lock(&mb->mib_lock)
McLock(p) ==
    /\ mc_pc[p] = "lock"
    /\ mib_lock_can_take(mib_lock)
    /\ mib_lock' = mc_call[p].kind
    /\ mc_pc' = [mc_pc EXCEPT ![p] = "addr"]
    /\ UNCHANGED <<mc_call, mc_i, mc_ret, mc_polls, mc_val, mc_tmp, mc_w,
                   mc_out, mib_address_reg, mib_ctrl0_reg, mib_counter_regs>>
    /\ McKeep

\* regmap_write(RTL8365MB_MIB_ADDRESS_REG, ...): the chip turns busy
McAddr(p) ==
    /\ mc_pc[p] = "addr"
    /\ mc_tmp' = [mc_tmp EXCEPT ![p] = U64(0)]
    /\ mc_w' = [mc_w EXCEPT ![p] = 0]
    /\ mc_polls' = [mc_polls EXCEPT ![p] = 0]
    /\ mc_out' = [mc_out EXCEPT ![p] = MibUntouched]
    /\ \E ok \in BOOLEAN :
          IF ok
          THEN /\ mib_address_reg' =
                     RTL8365MB_MIB_ADDRESS(mc_call[p].port, McCounter(p).offset)
               /\ mib_ctrl0_reg' = RTL8365MB_MIB_CTRL0_BUSY_MASK
               /\ mc_pc' = [mc_pc EXCEPT ![p] = "poll"]
               /\ UNCHANGED <<mc_ret, mc_i>>
          ELSE /\ McReadReturns(p, -EIO)
               /\ UNCHANGED <<mib_address_reg, mib_ctrl0_reg>>
    /\ UNCHANGED <<mib_lock, mc_call, mc_val, mib_counter_regs>>
    /\ McKeep

\* one read of regmap_read_poll_timeout(RTL8365MB_MIB_CTRL0_REG, ...) and,
\* once busy is clear, the test of the reset bit
McPoll(p) ==
    /\ mc_pc[p] = "poll"
    /\ \E ok \in BOOLEAN :
          IF ~ok
          THEN McReadReturns(p, -EIO) /\ UNCHANGED <<mc_val, mc_polls>>
          ELSE /\ mc_val' = [mc_val EXCEPT ![p] = mib_ctrl0_reg]
               /\ IF ~MaskSet(mib_ctrl0_reg, RTL8365MB_MIB_CTRL0_BUSY_MASK)
                  THEN /\ UNCHANGED mc_polls
                       /\ IF MaskSet(mib_ctrl0_reg,
                                     RTL8365MB_MIB_CTRL0_RESET_MASK)
                          THEN McReadReturns(p, -EIO)
                          ELSE /\ mc_pc' = [mc_pc EXCEPT ![p] = "data"]
                               /\ UNCHANGED <<mc_ret, mc_i>>
                  ELSE IF mc_polls[p] + 1 >= PollBound
                       THEN McReadReturns(p, -ETIMEDOUT) /\ UNCHANGED mc_polls
                       ELSE /\ mc_polls' = [mc_polls EXCEPT ![p] = @ + 1]
                            /\ UNCHANGED <<mc_pc, mc_ret, mc_i>>
    /\ UNCHANGED <<mib_lock, mc_call, mc_tmp, mc_w, mc_out, mib_address_reg,
                   mib_ctrl0_reg, mib_counter_regs>>
    /\ McKeep

\* a word loop that walks the counter registers upwards
word_reg_ascending(c, w) ==
    (IF c.length = 4 THEN 0 ELSE ((c.offset + 1) % 4) - 1) + w

\* index of the counter register the word loop reads in pass w
McWordReg(c, w) ==
    (IF c.length = 4 THEN 3 ELSE (c.offset + 1) % 4) - w

\* a read that stores every word it has assembled so far
mib_commit_every_word(out, tmpvalue, done) == tmpvalue

\* *mibvalue after a pass of the word loop: written after the last only
mib_commit(out, tmpvalue, done) == IF done THEN tmpvalue ELSE out

\* one pass of the word loop; the last pass commits tmpvalue
McData(p) ==
    /\ mc_pc[p] = "data"
    /\ \E ok \in BOOLEAN :
          IF ~ok
          THEN McReadReturns(p, -EIO) /\ UNCHANGED <<mc_tmp, mc_w, mc_out>>
          ELSE LET c == McCounter(p)
                   word == mib_counter_regs[McWordReg(c, mc_w[p])] % 2^16
                   t == <<word, mc_tmp[p][1], mc_tmp[p][2], mc_tmp[p][3]>>
               IN  /\ mc_tmp' = [mc_tmp EXCEPT ![p] = t]
                   /\ mc_out' = [mc_out EXCEPT ![p] =
                                   mib_commit(@, t, mc_w[p] + 1 >= c.length)]
                   /\ IF mc_w[p] + 1 < c.length
                      THEN /\ mc_w' = [mc_w EXCEPT ![p] = @ + 1]
                           /\ UNCHANGED <<mc_pc, mc_ret, mc_i>>
                      ELSE /\ McReadReturns(p, 0)
                           /\ UNCHANGED mc_w
    /\ UNCHANGED <<mib_lock, mc_call, mc_polls, mc_val, mib_address_reg,
                   mib_ctrl0_reg, mib_counter_regs>>
    /\ McKeep

\* mutex_unlock(&mb->mib_lock); the path goes on without the chip
McUnlock(p) ==
    /\ mc_pc[p] = "unlock"
    /\ mib_lock' = "free"
    /\ mc_pc' = [mc_pc EXCEPT ![p] = "idle"]
    /\ mc_call' = [mc_call EXCEPT ![p] = NoMibCall]
    /\ mc_i' = [mc_i EXCEPT ![p] = 1]
    /\ mc_ret' = [mc_ret EXCEPT ![p] = 0]
    /\ mc_polls' = [mc_polls EXCEPT ![p] = 0]
    /\ mc_val' = [mc_val EXCEPT ![p] = 0]
    /\ mc_tmp' = [mc_tmp EXCEPT ![p] = U64(0)]
    /\ mc_w' = [mc_w EXCEPT ![p] = 0]
    /\ mc_out' = [mc_out EXCEPT ![p] = MibUntouched]
    /\ UNCHANGED <<mib_address_reg, mib_ctrl0_reg, mib_counter_regs>>
    /\ McKeep

\* the chip finishes fetching the addressed counter window
HwMibLoad ==
    /\ MaskSet(mib_ctrl0_reg, RTL8365MB_MIB_CTRL0_BUSY_MASK)
    /\ mib_counter_regs' = [k \in 0 .. 3 |-> SramWord(mib_address_reg, k)]
    /\ \E reset \in {0, RTL8365MB_MIB_CTRL0_RESET_MASK} : mib_ctrl0_reg' = reset
    /\ UNCHANGED <<mib_lock, mc_pc, mc_call, mc_i, mc_ret, mc_polls, mc_val,
                   mc_tmp, mc_w, mc_out, mib_address_reg>>
    /\ McKeep

McNext ==
    \/ \E p \in Callers :
          \/ McEnter(p) \/ McLock(p) \/ McAddr(p) \/ McPoll(p) \/ McData(p)
          \/ McUnlock(p)
    \/ HwMibLoad


(***************************************************************************)
(* Statistics polling: rtl8365mb_stats_poll as the delayed work of a port, *)
(* started by rtl8365mb_phylink_mac_link_up, cancelled by                  *)
(* rtl8365mb_phylink_mac_link_down and rtl8365mb_stats_teardown.  A        *)
(* delayed work is pending with a delay or not pending; it runs when its   *)
(* delay expired and no run of it is in progress.  While                   *)
(* cancel_delayed_work_sync is in progress the work cannot be queued.      *)
(***************************************************************************)
WkPending(port) == wk_timer[port] # "none"

WkRunning(port) == wk_pc[port] # "idle"

\* a poll that gives up after a failed batch
rearm_on_success_only(ret) == ret = 0

\* schedule_delayed_work at the end of rtl8365mb_stats_poll is unconditional
poll_rearms(ret) == TRUE

\* a cancel that does not wait for the run in progress
cancel_never_waits(pc) == TRUE

\* cancel_delayed_work_sync returns when no run of the work is in progress
cancel_waits(pc) == pc = "idle"

\* schedule_delayed_work(&p->mib_work, delay): no effect on a work that is
\* pending or being cancelled
schedule_delayed_work(port, delay) ==
    IF WkPending(port) \/ wk_cancel[port]
    THEN wk_timer
    ELSE [wk_timer EXCEPT ![port] = delay]

WkInit ==
    /\ wk_link = [port \in UserPorts |-> "down"]
    /\ wk_timer = [port \in UserPorts |-> "none"]
    /\ wk_pc = [port \in UserPorts |-> "idle"]
    /\ wk_ret = [port \in UserPorts |-> 0]
    /\ wk_stale = [port \in UserPorts |-> FALSE]
    /\ wk_cancel = [port \in UserPorts |-> FALSE]
    /\ td_pc = "live"
    /\ td_port = CHOOSE port \in UserPorts : \A q \in UserPorts : port <= q

WkKeep ==
    UNCHANGED <<vlan_vars, ta_vars, st_vars, mc_vars, ih_vars, is_vars,
                vf_vars, later_vars>>

\* rtl8365mb_phylink_mac_link_up
LinkUp(port) ==
    /\ td_pc = "live"
    /\ wk_link[port] = "down"
    /\ wk_link' = [wk_link EXCEPT ![port] = "up"]
    /\ wk_timer' = schedule_delayed_work(port, "now")
    /\ UNCHANGED <<wk_pc, wk_ret, wk_stale, wk_cancel, td_pc, td_port>>
    /\ WkKeep

\* rtl8365mb_phylink_mac_link_down: cancel_delayed_work_sync takes the work
\* off its timer
LinkDownBegin(port) ==
    /\ td_pc = "live"
    /\ wk_link[port] = "up"
    /\ wk_link' = [wk_link EXCEPT ![port] = "going_down"]
    /\ wk_timer' = [wk_timer EXCEPT ![port] = "none"]
    /\ wk_cancel' = [wk_cancel EXCEPT ![port] = TRUE]
    /\ UNCHANGED <<wk_pc, wk_ret, wk_stale, td_pc, td_port>>
    /\ WkKeep

\* cancel_delayed_work_sync has waited for the run in progress; the
\* handler returns
LinkDownEnd(port) ==
    /\ wk_link[port] = "going_down"
    /\ cancel_waits(wk_pc[port])
    /\ wk_link' = [wk_link EXCEPT ![port] = "down"]
    /\ wk_cancel' = [wk_cancel EXCEPT ![port] = FALSE]
    /\ UNCHANGED <<wk_timer, wk_pc, wk_ret, wk_stale, td_pc, td_port>>
    /\ WkKeep

\* the delay expired: the work starts to run rtl8365mb_stats_poll
WkStart(port) ==
    /\ WkPending(port)
    /\ ~WkRunning(port)
    /\ wk_timer' = [wk_timer EXCEPT ![port] = "none"]
    /\ wk_pc' = [wk_pc EXCEPT ![port] = "update"]
    /\ UNCHANGED <<wk_link, wk_ret, wk_stale, wk_cancel, td_pc, td_port>>
    /\ WkKeep

\* rtl8365mb_stats_update with every counter read successful
WkUpdateOk(port) ==
    /\ wk_pc[port] = "update"
    /\ wk_ret' = [wk_ret EXCEPT ![port] = 0]
    /\ wk_stale' = [wk_stale EXCEPT ![port] = FALSE]
    /\ wk_pc' = [wk_pc EXCEPT ![port] = "rearm"]
    /\ UNCHANGED <<wk_link, wk_timer, wk_cancel, td_pc, td_port>>
    /\ WkKeep

\* rtl8365mb_stats_update with a failed counter read
WkUpdateFail(port) ==
    /\ wk_pc[port] = "update"
    /\ \E ret \in MibReadResults \ {0} : wk_ret' = [wk_ret EXCEPT ![port] = ret]
    /\ wk_stale' = [wk_stale EXCEPT ![port] = TRUE]
    /\ wk_pc' = [wk_pc EXCEPT ![port] = "rearm"]
    /\ UNCHANGED <<wk_link, wk_timer, wk_cancel, td_pc, td_port>>
    /\ WkKeep

\* schedule_delayed_work(&p->mib_work, RTL8365MB_STATS_INTERVAL_JIFFIES)
WkRearm(port) ==
    /\ wk_pc[port] = "rearm"
    /\ wk_timer' = IF poll_rearms(wk_ret[port])
                   THEN schedule_delayed_work(port, "interval")
                   ELSE wk_timer
    /\ wk_pc' = [wk_pc EXCEPT ![port] = "return"]
    /\ UNCHANGED <<wk_link, wk_ret, wk_stale, wk_cancel, td_pc, td_port>>
    /\ WkKeep

\* rtl8365mb_stats_poll returns
WkReturn(port) ==
    /\ wk_pc[port] = "return"
    /\ wk_pc' = [wk_pc EXCEPT ![port] = "idle"]
    /\ UNCHANGED <<wk_link, wk_timer, wk_ret, wk_stale, wk_cancel, td_pc,
                   td_port>>
    /\ WkKeep

\* rtl8365mb_stats_teardown is entered; no link handler is in progress
TdBegin ==
    /\ td_pc = "live"
    /\ \A port \in UserPorts : wk_link[port] # "going_down"
    /\ td_pc' = "cancel"
    /\ UNCHANGED <<wk_link, wk_timer, wk_pc, wk_ret, wk_stale, wk_cancel,
                   td_port>>
    /\ WkKeep

\* its cancel_delayed_work_sync takes the work of the port off its timer
TdCancel ==
    /\ td_pc = "cancel"
    /\ wk_timer' = [wk_timer EXCEPT ![td_port] = "none"]
    /\ wk_cancel' = [wk_cancel EXCEPT ![td_port] = TRUE]
    /\ td_pc' = "flush"
    /\ UNCHANGED <<wk_link, wk_pc, wk_ret, wk_stale, td_port>>
    /\ WkKeep

\* and has waited for the run in progress; the loop goes to the next port
TdFlush ==
    /\ td_pc = "flush"
    /\ cancel_waits(wk_pc[td_port])
    /\ wk_cancel' = [wk_cancel EXCEPT ![td_port] = FALSE]
    /\ IF td_port + 1 \in UserPorts
       THEN td_port' = td_port + 1 /\ td_pc' = "cancel"
       ELSE td_port' = td_port /\ td_pc' = "done"
    /\ UNCHANGED <<wk_link, wk_timer, wk_pc, wk_ret, wk_stale>>
    /\ WkKeep

WkNext ==
    \/ \E port \in UserPorts :
          \/ LinkUp(port) \/ LinkDownBegin(port) \/ LinkDownEnd(port)
          \/ WkStart(port) \/ WkUpdateOk(port) \/ WkUpdateFail(port)
          \/ WkRearm(port) \/ WkReturn(port)
    \/ TdBegin \/ TdCancel \/ TdFlush


(***************************************************************************)
(* The interrupt handler rtl8365mb_irq.  The status and indicator          *)
(* registers are cleared by writing back the bits that were read.          *)
(***************************************************************************)
RTL8365MB_PORT_LINKDOWN_IND_MASK == GENMASK(10, 0)
RTL8365MB_PORT_LINKUP_IND_MASK == GENMASK(10, 0)

\* priv->num_ports
num_ports == RTL8365MB_MAX_NUM_PORTS

\* ports whose link the chip reports on, and a reserved indicator bit
IrqPorts == {2, 10, 11}

\* the register accesses of one run, in order: read and write of the
\* status register, of the link-up and of the link-down indicator
IrqAccesses == 1 .. 6

\* rtl8365mb_get_and_clear_status_reg on a register holding reg
rtl8365mb_get_and_clear_status_reg(reg, rd_ok, wr_ok) ==
    IF ~rd_ok THEN [ret |-> -EIO, val |-> 0, reg |-> reg]
    ELSE IF ~wr_ok THEN [ret |-> -EIO, val |-> reg, reg |-> reg]
    ELSE [ret |-> 0, val |-> reg, reg |-> BitAndNot(reg, reg)]

\* for_each_set_bit(line, &line_changes, size)
for_each_set_bit(bits, size) ==
    SelectSeq([i \in 1 .. size |-> i - 1], LAMBDA line : TestBit(bits, line))

\* a handler that looks at the link-up indicator only
line_changes_linkup_only(linkup, linkdown) == linkup

\* line_changes = linkup_ind | linkdown_ind
irq_line_changes(linkup, linkdown) == BitOr(linkup, linkdown)

\* rtl8365mb_irq on registers regs when access number fail (0: none) fails
rtl8365mb_irq(regs, fail) ==
    LET s == rtl8365mb_get_and_clear_status_reg(regs.status, fail # 1, fail # 2)
        u == rtl8365mb_get_and_clear_status_reg(regs.up, fail # 3, fail # 4)
        d == rtl8365mb_get_and_clear_status_reg(regs.down, fail # 5, fail # 6)
        out_error(ret, r) ==
            [ret |-> "IRQ_NONE", err |-> ret, lines |-> <<>>, regs |-> r]
    IN
    IF s.ret # 0
    THEN out_error(s.ret, [regs EXCEPT !.status = s.reg])
    ELSE IF TestBit(s.val, 0)
    THEN IF u.ret # 0
         THEN out_error(u.ret, [regs EXCEPT !.status = s.reg, !.up = u.reg])
         ELSE IF d.ret # 0
         THEN out_error(d.ret, [status |-> s.reg, up |-> u.reg, down |-> d.reg])
         ELSE LET line_changes ==
                     irq_line_changes(
                        FIELD_GET(RTL8365MB_PORT_LINKUP_IND_MASK, u.val),
                        FIELD_GET(RTL8365MB_PORT_LINKDOWN_IND_MASK, d.val))
              IN  [ret |-> IF line_changes = 0 THEN "IRQ_NONE"
                           ELSE "IRQ_HANDLED",
                   err |-> 0,
                   lines |-> for_each_set_bit(line_changes, num_ports),
                   regs |-> [status |-> s.reg, up |-> u.reg, down |-> d.reg]]
    ELSE [ret |-> "IRQ_NONE", err |-> 0, lines |-> <<>>,
          regs |-> [regs EXCEPT !.status = s.reg]]

IhInit ==
    /\ intr_status = 0
    /\ linkup_ind = 0
    /\ linkdown_ind = 0
    /\ irq_in = [status |-> 0, up |-> 0, down |-> 0]
    /\ irq_ret = "none"
    /\ irq_err = 0
    /\ irq_lines = <<>>

IhKeep ==
    UNCHANGED <<vlan_vars, ta_vars, st_vars, mc_vars, wk_vars, is_vars,
                vf_vars, later_vars>>

\* the chip raises a cause in its status register
HwIntrStatus ==
    /\ \E mask \in {RTL8365MB_INTR_LINK_CHANGE_MASK,
                    RTL8365MB_INTR_SPEED_CHANGE_MASK} :
          intr_status' = BitOr(intr_status, mask)
    /\ UNCHANGED <<linkup_ind, linkdown_ind, irq_in, irq_ret, irq_err,
                   irq_lines>>
    /\ IhKeep

\* the chip records that the link of a port came up
HwLinkUp ==
    /\ \E port \in IrqPorts : linkup_ind' = BitOr(linkup_ind, BIT(port))
    /\ UNCHANGED <<intr_status, linkdown_ind, irq_in, irq_ret, irq_err,
                   irq_lines>>
    /\ IhKeep

\* the chip records that the link of a port went down
HwLinkDown ==
    /\ \E port \in IrqPorts : linkdown_ind' = BitOr(linkdown_ind, BIT(port))
    /\ UNCHANGED <<intr_status, linkup_ind, irq_in, irq_ret, irq_err,
                   irq_lines>>
    /\ IhKeep

\* one run of the handler
IrqRun ==
    \E fail \in {0} \cup IrqAccesses :
       LET regs == [status |-> intr_status, up |-> linkup_ind,
                    down |-> linkdown_ind]
           r == rtl8365mb_irq(regs, fail)
       IN  /\ irq_in' = regs
           /\ irq_ret' = r.ret
           /\ irq_err' = r.err
           /\ irq_lines' = r.lines
           /\ intr_status' = r.regs.status
           /\ linkup_ind' = r.regs.up
           /\ linkdown_ind' = r.regs.down
           /\ IhKeep

IhNext == HwIntrStatus \/ HwLinkUp \/ HwLinkDown \/ IrqRun


(***************************************************************************)
(* rtl8365mb_irq_setup and rtl8365mb_irq_teardown.  Both are computed on   *)
(* a record st of what the driver holds; st.log lists what a call did.     *)
(***************************************************************************)
RTL8365MB_INTR_POLARITY_MASK == GENMASK(0, 0)

\* the link-change bit of RTL8365MB_INTR_CTRL_REG
IntrCtrlLinkChange == GENMASK(0, 0)

IrqLines == 0 .. (num_ports - 1)

IrqTriggers == {"NONE", "RISING", "FALLING", "HIGH", "LOW"}

\* the parent interrupt number of_irq_get returns when there is one
ParentIrq == 7

\* what the kernel and the bus answer during one call of rtl8365mb_irq_setup
IrqSetupOutcomes ==
    [node : BOOLEAN,                          \* of_get_child_by_name finds it
     parent : {-EPROBE_DEFER, -EINVAL, 0, ParentIrq},     \* of_irq_get
     domain : BOOLEAN,                        \* irq_domain_add_linear
     map_fail : {0, 1, num_ports - 1, num_ports},
                                  \* first line irq_create_mapping fails on
     trig : IrqTriggers,                      \* irq_get_trigger_type
     reg_fail : 0 .. 4,   \* register access that fails: polarity, disable,
                          \* status clear, enable (0: none)
     request : {0, -ENOMEM}]                  \* request_threaded_irq

IsEvent(st, ev, line) ==
    [st EXCEPT !.log = Append(@, [ev |-> ev, line |-> line])]

free_irq(st) ==
    IsEvent([st EXCEPT !.handler = FALSE, !.fault = @ \/ ~st.handler],
            "free_irq", -1)

\* irq_dispose_mapping(irq_find_mapping(priv->irqdomain, i)); a line
\* without a mapping has virq 0, which irq_dispose_mapping ignores
irq_dispose_mapping(st, i) ==
    IF i \in st.maps
    THEN IsEvent([st EXCEPT !.maps = @ \ {i}], "irq_dispose_mapping", i)
    ELSE st

RECURSIVE dispose_mappings(_, _)
dispose_mappings(st, i) ==
    IF i >= num_ports THEN st
    ELSE dispose_mappings(irq_dispose_mapping(st, i), i + 1)

irq_domain_remove(st) ==
    IsEvent([st EXCEPT !.irqdomain = FALSE,
                       !.fault = @ \/ ~st.irqdomain \/ st.maps # {}],
            "irq_domain_remove", -1)

of_node_put(st) ==
    IsEvent([st EXCEPT !.refs = @ - 1, !.fault = @ \/ st.refs = 0],
            "of_node_put", -1)

rtl8365mb_set_irq_enable(st, enable) ==
    IsEvent([st EXCEPT !.ctrl = regmap_update_bits(@, IntrCtrlLinkChange,
                 FIELD_PREP(IntrCtrlLinkChange, IF enable THEN 1 ELSE 0))],
            IF enable THEN "irq_enable" ELSE "irq_disable", -1)

\* the label out_put_node of rtl8365mb_irq_setup
out_put_node(st, ret) == [st |-> of_node_put(st), ret |-> ret]

\* an unwinding that disposes of the mappings before it frees the parent
teardown_mappings_first(st) ==
    LET a == IF st.irqdomain
             THEN irq_domain_remove(dispose_mappings(st, 0))
             ELSE st
    IN  IF a.irq # 0 THEN [free_irq(a) EXCEPT !.irq = 0] ELSE a

\* an unwinding that forgets the parent interrupt
out_remove_irqdomain_only(st, ret) ==
    out_put_node(irq_domain_remove(dispose_mappings(st, 0)), ret)

\* the label out_remove_irqdomain
out_remove_irqdomain(st, ret) ==
    out_put_node(irq_domain_remove(dispose_mappings(st, 0)), ret)

\* the label out_free_irq
out_free_irq(st, ret) ==
    out_remove_irqdomain([free_irq(st) EXCEPT !.irq = 0], ret)

rtl8365mb_irq_teardown(st) ==
    LET a == IF st.irq # 0 THEN [free_irq(st) EXCEPT !.irq = 0] ELSE st
    IN  IF a.irqdomain
        THEN irq_domain_remove(dispose_mappings(a, 0))
        ELSE a

rtl8365mb_irq_setup(st, o) ==
    LET got == IsEvent([st EXCEPT !.refs = @ + 1], "of_get_child_by_name", -1)
        dom == IsEvent([got EXCEPT !.irqdomain = TRUE],
                       "irq_domain_add_linear", -1)
        nmap == o.map_fail
        mapd == [dom EXCEPT
                   !.maps = {i \in IrqLines : i < nmap},
                   !.log = @ \o [k \in 1 .. nmap |->
                                   [ev |-> "irq_create_mapping",
                                    line |-> k - 1]]]
        val == IF o.trig \in {"RISING", "HIGH"}
               THEN RTL8365MB_INTR_POLARITY_HIGH
               ELSE RTL8365MB_INTR_POLARITY_LOW
        pol == IsEvent([mapd EXCEPT !.pol = regmap_update_bits(@,
                          RTL8365MB_INTR_POLARITY_MASK,
                          FIELD_PREP(RTL8365MB_INTR_POLARITY_MASK, val))],
                       "polarity", -1)
        dis == rtl8365mb_set_irq_enable(pol, FALSE)
        clr == IsEvent([dis EXCEPT
                          !.status = BitAndNot(@, RTL8365MB_INTR_ALL_MASK)],
                       "status_clear", -1)
        req == IsEvent([clr EXCEPT !.handler = TRUE, !.irq = o.parent],
                       "request_threaded_irq", -1)
        ena == rtl8365mb_set_irq_enable(req, TRUE)
    IN
    IF ~o.node THEN [st |-> st, ret |-> -EINVAL]
    ELSE IF o.parent <= 0
    THEN out_put_node(got, IF o.parent # 0 THEN o.parent ELSE -EINVAL)
    ELSE IF ~o.domain
    THEN out_put_node([got EXCEPT !.irqdomain = FALSE], -ENOMEM)
    ELSE IF nmap < num_ports THEN out_remove_irqdomain(mapd, -EINVAL)
    ELSE IF o.trig \notin {"RISING", "HIGH", "FALLING", "LOW"}
    THEN out_remove_irqdomain(mapd, -EINVAL)
    ELSE IF o.reg_fail = 1 THEN out_remove_irqdomain(mapd, -EIO)
    ELSE IF o.reg_fail = 2 THEN out_remove_irqdomain(pol, -EIO)
    ELSE IF o.reg_fail = 3 THEN out_remove_irqdomain(dis, -EIO)
    ELSE IF o.request # 0 THEN out_remove_irqdomain(clr, o.request)
    ELSE IF o.reg_fail = 4 THEN out_free_irq(req, -EIO)
    ELSE [st |-> of_node_put(ena), ret |-> 0]

\* what the driver holds, as a record for the two functions above
IsState ==
    [irq |-> mb_irq, irqdomain |-> irqdomain, maps |-> virq_maps,
     handler |-> irq_handler, refs |-> intc_refs, ctrl |-> intr_ctrl,
     pol |-> intr_polarity, status |-> intr_status, log |-> <<>>,
     fault |-> is_fault]

IsStore(st, op, ret) ==
    /\ mb_irq' = st.irq
    /\ irqdomain' = st.irqdomain
    /\ virq_maps' = st.maps
    /\ irq_handler' = st.handler
    /\ intc_refs' = st.refs
    /\ intr_ctrl' = st.ctrl
    /\ intr_polarity' = st.pol
    /\ intr_status' = st.status
    /\ is_log' = st.log
    /\ is_fault' = st.fault
    /\ is_last' = [op |-> op, ret |-> ret]

IsInit ==
    /\ mb_irq = 0
    /\ irqdomain = FALSE
    /\ virq_maps = {}
    /\ irq_handler = FALSE
    /\ intc_refs = 0
    /\ intr_ctrl = 0
    /\ intr_polarity = 0
    /\ is_log = <<>>
    /\ is_last = [op |-> "none", ret |-> 0]
    /\ is_fault = FALSE

IsKeep ==
    UNCHANGED <<vlan_vars, ta_vars, st_vars, mc_vars, wk_vars, linkup_ind,
                linkdown_ind, irq_in, irq_ret, irq_err, irq_lines, vf_vars,
                later_vars>>

\* rtl8365mb_setup calls rtl8365mb_irq_setup while nothing is held
IrqSetup ==
    /\ mb_irq = 0
    /\ ~irqdomain
    /\ \E o \in IrqSetupOutcomes :
          LET r == rtl8365mb_irq_setup(IsState, o)
          IN  IsStore(r.st, "setup", r.ret)
    /\ IsKeep

\* rtl8365mb_teardown, or rtl8365mb_setup failing after its call of
\* rtl8365mb_irq_setup, calls rtl8365mb_irq_teardown
IrqTeardown ==
    /\ is_last.op # "none"
    /\ ~(is_last.op = "setup" /\ is_last.ret = -EPROBE_DEFER)
    /\ IsStore(rtl8365mb_irq_teardown(IsState), "teardown", 0)
    /\ IsKeep

\* a reset of the chip may leave the link-change interrupt enabled
HwChipReset ==
    /\ ~irq_handler
    /\ intr_ctrl' = regmap_update_bits(intr_ctrl, IntrCtrlLinkChange,
                                       FIELD_PREP(IntrCtrlLinkChange, 1))
    /\ UNCHANGED <<mb_irq, irqdomain, virq_maps, irq_handler, intc_refs,
                   intr_polarity, is_log, is_last, is_fault, intr_status>>
    /\ IsKeep

IsNext == IrqSetup \/ IrqTeardown \/ HwChipReset \/ HwIntrStatus


(***************************************************************************)
(* rtl8365mb_vlan_filtering                                                *)
(***************************************************************************)
\* a call that writes the whole register instead of the bit of the port
vlan_filtering_whole_register(reg, port, vlan_filtering) ==
    IF vlan_filtering THEN BIT(port) ELSE 0

\* the ingress filter register after rtl8365mb_vlan_filtering succeeded
rtl8365mb_vlan_filtering(reg, port, vlan_filtering) ==
    regmap_update_bits(reg, GENMASK(port, port),
                       IF vlan_filtering THEN BIT(port) ELSE 0)

VfInit ==
    /\ vlan_ingress = 0
    /\ vf_last = [port |-> -1, on |-> FALSE, ret |-> 0]

(***************************************************************************)
(* rtl8365mb_phy_write and rtl8365mb_phy_ocp_write.  The register accesses *)
(* of one write are numbered 1..6: busy poll, OCP prefix, address, data,   *)
(* command, busy poll.                                                     *)
(***************************************************************************)
RTL8365MB_PHYREGMAX == RTL8365MB_NUM_PHYREGS - 1
RTL8365MB_INDIRECT_ACCESS_CTRL_RW_MASK == GENMASK(1, 1)
RTL8365MB_INDIRECT_ACCESS_CTRL_CMD_MASK == GENMASK(0, 0)
RTL8365MB_INDIRECT_ACCESS_ADDRESS_OCPADR_5_1_MASK == GENMASK(4, 0)
RTL8365MB_INDIRECT_ACCESS_ADDRESS_PHYNUM_MASK == GENMASK(7, 5)
RTL8365MB_INDIRECT_ACCESS_ADDRESS_OCPADR_9_6_MASK == GENMASK(11, 8)
RTL8365MB_GPHY_OCP_MSB_0_CFG_CPU_OCPADR_MASK == GENMASK(11, 6)
RTL8365MB_PHY_OCP_ADDR_PREFIX_MASK == GENMASK(15, 10)

\* arguments the callers pass: in range, and one past each limit
PhyAddrs == {0, RTL8365MB_PHYADDRMAX, RTL8365MB_PHYADDRMAX + 1}
PhyRegnums == {0, RTL8365MB_PHYREGMAX, RTL8365MB_PHYREGMAX + 1}
PhyData == {4660}

\* which access of a write fails, and how (0: none fails)
PhyFailures ==
    {[at |-> 0, err |-> 0]}
       \cup [at : 1 .. 6, err : {-EIO}]
       \cup [at : {1, 6}, err : {-ETIMEDOUT}]

\* the address word rtl8365mb_phy_ocp_prepare writes
phy_ocp_address(phy, ocp_addr) ==
    BitOr(RTL8365MB_PHY_BASE,
      BitOr(FIELD_PREP(RTL8365MB_INDIRECT_ACCESS_ADDRESS_PHYNUM_MASK, phy),
        BitOr(FIELD_PREP(RTL8365MB_INDIRECT_ACCESS_ADDRESS_OCPADR_5_1_MASK,
                         ocp_addr \div 2),
              FIELD_PREP(RTL8365MB_INDIRECT_ACCESS_ADDRESS_OCPADR_9_6_MASK,
                         ocp_addr \div 64))))

\* what rtl8365mb_phy_ocp_write returns when its last step returned ret
phy_ocp_write_ret(ret) == 0

\* rtl8365mb_phy_ocp_write: f says which access fails; done says whether
\* the chip completed a command whose completion poll failed
rtl8365mb_phy_ocp_write(mem, regs, phy, ocp_addr, data, f, done) ==
    LET reached(k) == f.at = 0 \/ f.at > k
        msb == regmap_update_bits(regs.msb,
                  RTL8365MB_GPHY_OCP_MSB_0_CFG_CPU_OCPADR_MASK,
                  FIELD_PREP(RTL8365MB_GPHY_OCP_MSB_0_CFG_CPU_OCPADR_MASK,
                     FIELD_GET(RTL8365MB_PHY_OCP_ADDR_PREFIX_MASK, ocp_addr)))
        ctrl == BitOr(FIELD_PREP(RTL8365MB_INDIRECT_ACCESS_CTRL_CMD_MASK,
                         RTL8365MB_INDIRECT_ACCESS_CTRL_CMD_VALUE),
                      FIELD_PREP(RTL8365MB_INDIRECT_ACCESS_CTRL_RW_MASK,
                         RTL8365MB_INDIRECT_ACCESS_CTRL_RW_WRITE))
        after == [msb |-> IF reached(2) THEN msb ELSE regs.msb,
                  addr |-> IF reached(3) THEN phy_ocp_address(phy, ocp_addr)
                           ELSE regs.addr,
                  wdata |-> IF reached(4) THEN data ELSE regs.wdata,
                  ctrl |-> IF reached(5) THEN ctrl ELSE regs.ctrl]
        issued == reached(5)
        completed == issued /\ (f.at = 0 \/ done)
        key == <<after.msb, after.addr>>
    IN  [ret |-> phy_ocp_write_ret(f.err),
         err |-> f.err,
         issued |-> issued,
         completed |-> completed,
         regs |-> after,
         mem |-> IF completed /\ key \in DOMAIN mem
                 THEN [mem EXCEPT ![key] = after.wdata] ELSE mem,
         log |-> <<"rtl83xx_lock">>
                    \o [k \in 1 .. (IF f.at = 0 THEN 6 ELSE f.at) |-> "access"]
                    \o <<"rtl83xx_unlock">>]

rtl8365mb_phy_write(mem, regs, phy, regnum, val, f, done) ==
    LET rejected == [ret |-> -EINVAL, err |-> -EINVAL, issued |-> FALSE,
                     completed |-> FALSE, regs |-> regs, mem |-> mem,
                     log |-> <<>>]
        ocp_addr == RTL8365MB_PHY_OCP_ADDR_PHYREG_BASE + regnum * 2
    IN  IF phy > RTL8365MB_PHYADDRMAX THEN rejected
        ELSE IF regnum > RTL8365MB_PHYREGMAX THEN rejected
        ELSE rtl8365mb_phy_ocp_write(mem, regs, phy, ocp_addr, val, f, done)

\* the PHY registers the window can name with the arguments above
PhyKeys ==
    {<<FIELD_PREP(RTL8365MB_GPHY_OCP_MSB_0_CFG_CPU_OCPADR_MASK,
          FIELD_GET(RTL8365MB_PHY_OCP_ADDR_PREFIX_MASK,
                    RTL8365MB_PHY_OCP_ADDR_PHYREG_BASE + r * 2)),
       phy_ocp_address(p, RTL8365MB_PHY_OCP_ADDR_PHYREG_BASE + r * 2)>> :
        p \in {a \in PhyAddrs : a <= RTL8365MB_PHYADDRMAX},
        r \in {a \in PhyRegnums : a <= RTL8365MB_PHYREGMAX}}

PhInit ==
    /\ phy_mem = [k \in PhyKeys |-> 0]
    /\ ia_regs = [msb |-> 0, addr |-> 0, wdata |-> 0, ctrl |-> 0]
    /\ ph_last = [ret |-> 0, err |-> 0, issued |-> FALSE,
                  completed |-> FALSE, log |-> <<>>]

\* a caller writes a PHY register
PhyWrite ==
    /\ \E phy \in PhyAddrs, regnum \in PhyRegnums, val \in PhyData,
          f \in PhyFailures, done \in BOOLEAN :
          LET r == rtl8365mb_phy_write(phy_mem, ia_regs, phy, regnum, val,
                                       f, done)
          IN  /\ phy_mem' = r.mem
              /\ ia_regs' = r.regs
              /\ ph_last' = [ret |-> r.ret, err |-> r.err,
                             issued |-> r.issued, completed |-> r.completed,
                             log |-> r.log]
    /\ UNCHANGED <<vlan_vars, ta_vars, st_vars, mc_vars, wk_vars, ih_vars,
                   is_vars, vf_vars, cv_vars, sp_vars, sg_vars>>

PhNext == PhyWrite


(***************************************************************************)
(* rtl8365mb_vlan_add called by two contexts at once.  The driver takes no *)
(* lock around rtl8365mb_vlanmc_set: every slot read of the scan is a step *)
(* of its own.  The accesses after the slot is chosen touch only the slot  *)
(* and the fields of the caller's port and are taken as one step, and so   *)
(* is the by-ID step, which runs under table_lock.                         *)
(***************************************************************************)
CvCallers == {1, 2}

\* the two requests: different ports, different VLAN ids, both PVID
CvReq ==
    <<[port |-> 2, vid |-> 10, flags |-> [untagged |-> FALSE, pvid |-> TRUE]],
      [port |-> 3, vid |-> 11, flags |-> [untagged |-> FALSE, pvid |-> TRUE]]>>

CvNo4k == [member |-> 0, untag |-> 0, fid |-> 0]

CvInit ==
    /\ cv_pc = [a \in CvCallers |-> "idle"]
    /\ cv_idx = [a \in CvCallers |-> 1]
    /\ cv_first = [a \in CvCallers |-> -1]
    /\ cv_entry = [a \in CvCallers |-> ZeroRow(RTL8365MB_VLAN_MC_CONF_ENTRY_SIZE)]
    /\ cv_4k = [a \in CvCallers |-> CvNo4k]
    /\ cv_ret = [a \in CvCallers |-> 0]

CvKeep ==
    UNCHANGED <<last, nreq, ta_vars, st_vars, mc_vars, wk_vars, ih_vars,
                is_vars, vf_vars, ph_vars, sp_vars, sg_vars>>

CvChipKeep == UNCHANGED <<vlan4k, vlanmc, pvid_ctrl, accept_frame_type>>

CvStore(chip) ==
    /\ vlan4k' = chip.vlan4k
    /\ vlanmc' = chip.vlanmc
    /\ pvid_ctrl' = chip.pvid_ctrl
    /\ accept_frame_type' = chip.accept_frame_type

\* rtl8365mb_vlan_add is entered; vlanmc_idx = 1, first_unused = -1
CvEnter(a) ==
    /\ cv_pc[a] = "idle"
    /\ last.op = "setup"
    /\ cv_pc' = [cv_pc EXCEPT ![a] = "scan"]
    /\ UNCHANGED <<cv_idx, cv_first, cv_entry, cv_4k, cv_ret>>
    /\ CvChipKeep
    /\ CvKeep

\* one pass of the scan loop: regmap_bulk_read of slot vlanmc_idx
CvScan(a) ==
    /\ cv_pc[a] = "scan"
    /\ cv_idx[a] < RTL8365MB_VLAN_MC_CONF_SIZE
    /\ LET entry == vlanmc[cv_idx[a]]
           evid == FIELD_GET(RTL8365MB_VLAN_MC_CONF3_EVID_MSK, entry[3])
       IN  /\ cv_entry' = [cv_entry EXCEPT ![a] = entry]
           /\ IF evid = CvReq[a].vid
              THEN /\ cv_pc' = [cv_pc EXCEPT ![a] = "commit"]
                   /\ UNCHANGED <<cv_idx, cv_first>>
              ELSE /\ cv_first' = [cv_first EXCEPT ![a] =
                                     IF evid = 0 /\ @ < 0 THEN cv_idx[a] ELSE @]
                   /\ cv_idx' = [cv_idx EXCEPT ![a] = @ + 1]
                   /\ UNCHANGED cv_pc
    /\ UNCHANGED <<cv_4k, cv_ret>>
    /\ CvChipKeep
    /\ CvKeep

\* the scan found no slot for the VLAN: a free one is taken and seeded
\* from the by-ID row
CvNotFound(a) ==
    /\ cv_pc[a] = "scan"
    /\ cv_idx[a] = RTL8365MB_VLAN_MC_CONF_SIZE
    /\ IF vlanmc_not_created(CvReq[a].flags)
       THEN /\ cv_pc' = [cv_pc EXCEPT ![a] = "by_id"]
            /\ UNCHANGED <<cv_idx, cv_entry, cv_4k, cv_ret>>
            /\ CvChipKeep
       ELSE IF cv_first[a] < 0
       THEN /\ cv_pc' = [cv_pc EXCEPT ![a] = "done"]
            /\ cv_ret' = [cv_ret EXCEPT ![a] = -EINVAL]
            /\ UNCHANGED <<cv_idx, cv_entry, cv_4k>>
            /\ CvChipKeep
       ELSE LET rd == rtl8365mb_table_access(Chip, RTL8365MB_TABLE_CVLAN,
                         RTL8365MB_TABLE_READ, CvReq[a].vid,
                         ZeroRow(RTL8365MB_VLAN_MC_CONF_ENTRY_SIZE))
            IN  /\ CvStore(rd.chip)
                /\ IF rd.ret # 0
                   THEN /\ cv_pc' = [cv_pc EXCEPT ![a] = "done"]
                        /\ cv_ret' = [cv_ret EXCEPT ![a] = rd.ret]
                        /\ UNCHANGED <<cv_idx, cv_entry, cv_4k>>
                   ELSE /\ cv_pc' = [cv_pc EXCEPT ![a] = "commit"]
                        /\ cv_entry' = [cv_entry EXCEPT ![a] = rd.val]
                        /\ cv_4k' = [cv_4k EXCEPT ![a] =
                                       rtl8365mb_buf_vlan4k(rd.val)]
                        /\ cv_idx' = [cv_idx EXCEPT ![a] = cv_first[a]]
                        /\ UNCHANGED cv_ret
    /\ UNCHANGED cv_first
    /\ CvKeep

\* the rest of rtl8365mb_vlanmc_set: the slot, PVID and frame type writes
CvCommit(a) ==
    /\ cv_pc[a] = "commit"
    /\ LET r == vlanmc_commit(Chip, CvReq[a].port, CvReq[a].vid,
                              CvReq[a].flags, TRUE, cv_idx[a], cv_entry[a],
                              cv_4k[a], <<>>)
       IN  /\ CvStore(r.chip)
           /\ cv_pc' = [cv_pc EXCEPT ![a] = "by_id"]
    /\ UNCHANGED <<cv_idx, cv_first, cv_entry, cv_4k, cv_ret>>
    /\ CvKeep

\* rtl8365mb_vlan4k_set, and the return of rtl8365mb_vlan_add
CvById(a) ==
    /\ cv_pc[a] = "by_id"
    /\ LET k4 == rtl8365mb_vlan4k_set(Chip, CvReq[a].port, CvReq[a].vid,
                                      CvReq[a].flags, TRUE)
           r == IF k4.ret # 0
                THEN rtl8365mb_vlanmc_set(k4.chip, CvReq[a].port,
                                          CvReq[a].vid, CvReq[a].flags, FALSE)
                ELSE k4
       IN  /\ CvStore(r.chip)
           /\ cv_ret' = [cv_ret EXCEPT ![a] = k4.ret]
    /\ cv_pc' = [cv_pc EXCEPT ![a] = "done"]
    /\ UNCHANGED <<cv_idx, cv_first, cv_entry, cv_4k>>
    /\ CvKeep

CvNext ==
    \E a \in CvCallers :
       CvEnter(a) \/ CvScan(a) \/ CvNotFound(a) \/ CvCommit(a) \/ CvById(a)


\* rtl8365mb_setup has not run; mb->table_lock is as allocated
SpInit ==
    /\ sp_pc = "start"
    /\ tl_init = FALSE
    /\ tl_used = FALSE
    /\ tl_early = FALSE
    /\ tl_reinit = FALSE

(***************************************************************************)
(* rtl8365mb_port_stp_state_set.  A register of the chip holds 16 bits.    *)
(***************************************************************************)
RTL8365MB_MSTI_CTRL_BASE == 2560
RTL8365MB_STP_STATE_DISABLED == 0
RTL8365MB_STP_STATE_BLOCKING == 1
RTL8365MB_STP_STATE_LEARNING == 2
RTL8365MB_STP_STATE_FORWARDING == 3

\* the states of the bridge, as the host numbers them
BR_STATE_DISABLED == 0
BR_STATE_LISTENING == 1
BR_STATE_LEARNING == 2
BR_STATE_FORWARDING == 3
BR_STATE_BLOCKING == 4

\* calls of the host that are followed
MaxStpOps == 2

\* the ports of the setup loop, and the state values the host may pass:
\* the five states of the bridge and one value that is none of them
StpPorts == 0 .. (RTL8365MB_MAX_NUM_PORTS - 1)
StpStates == 0 .. 5

\* what the registers may hold when the chip leaves its reset
StpResetValues == {0, 65535}

\* BASE + (msti << 1) + (physport >> 3)
RTL8365MB_MSTI_CTRL_REG(msti, physport) ==
    RTL8365MB_MSTI_CTRL_BASE + msti * 2 + physport \div 8

\* physport << 1
RTL8365MB_MSTI_CTRL_PORT_STATE_OFFSET(physport) == physport * 2

\* 0x3 << offset
RTL8365MB_MSTI_CTRL_PORT_STATE_MASK(physport) ==
    GENMASK(RTL8365MB_MSTI_CTRL_PORT_STATE_OFFSET(physport) + 1,
            RTL8365MB_MSTI_CTRL_PORT_STATE_OFFSET(physport))

\* the switch statement: the hardware state, or -1 at the default label
stp_state_val(state) ==
    CASE state = BR_STATE_DISABLED -> RTL8365MB_STP_STATE_DISABLED
      [] state \in {BR_STATE_BLOCKING, BR_STATE_LISTENING} ->
            RTL8365MB_STP_STATE_BLOCKING
      [] state = BR_STATE_LEARNING -> RTL8365MB_STP_STATE_LEARNING
      [] state = BR_STATE_FORWARDING -> RTL8365MB_STP_STATE_FORWARDING
      [] OTHER -> -1

\* rtl8365mb_port_stp_state_set on registers regs; the register keeps the
\* low 16 bits of what regmap_update_bits writes
rtl8365mb_port_stp_state_set(regs, port, state) ==
    LET val == stp_state_val(state)
        msti == 0
        reg == RTL8365MB_MSTI_CTRL_REG(msti, port)
    IN  IF val < 0 THEN regs
        ELSE [regs EXCEPT ![reg] =
                 regmap_update_bits(@,
                     RTL8365MB_MSTI_CTRL_PORT_STATE_MASK(port),
                     val * 2^RTL8365MB_MSTI_CTRL_PORT_STATE_OFFSET(port))
                 % 2^16]

\* the loop of rtl8365mb_setup over the ports from port i on
RECURSIVE stp_setup_ports(_, _)
stp_setup_ports(regs, i) ==
    IF i >= RTL8365MB_MAX_NUM_PORTS THEN regs
    ELSE stp_setup_ports(
             rtl8365mb_port_stp_state_set(regs, i, BR_STATE_DISABLED), i + 1)

MstiRegs == {RTL8365MB_MSTI_CTRL_REG(0, port) : port \in StpPorts}

SgInit ==
    /\ msti_ctrl = [reg \in MstiRegs |-> 0]
    /\ stp_pc = "reset"
    /\ stp_last = [port |-> -1, state |-> -1]
    /\ stp_n = 0

SgKeep ==
    UNCHANGED <<vlan_vars, ta_vars, st_vars, mc_vars, wk_vars, ih_vars,
                is_vars, vf_vars, ph_vars, cv_vars, sp_vars>>

\* the chip leaves its reset and rtl8365mb_setup disables every port
StpSetup ==
    /\ stp_pc = "reset"
    /\ \E v \in StpResetValues :
          msti_ctrl' = stp_setup_ports([reg \in MstiRegs |-> v], 0)
    /\ stp_pc' = "ready"
    /\ UNCHANGED <<stp_last, stp_n>>
    /\ SgKeep

\* the host sets the state of a port
StpStateSet ==
    /\ stp_pc = "ready"
    /\ stp_n < MaxStpOps
    /\ \E port \in StpPorts, state \in StpStates :
          /\ msti_ctrl' = rtl8365mb_port_stp_state_set(msti_ctrl, port, state)
          /\ stp_last' = [port |-> port, state |-> state]
    /\ stp_n' = stp_n + 1
    /\ UNCHANGED stp_pc
    /\ SgKeep

SgNext == StpSetup \/ StpStateSet


(***************************************************************************)
(* The host's requests, served one at a time.  The host may first          *)
(* provision FillCount PVID VLANs on port FillPort, then issues up to      *)
(* MaxOps requests for the ports and VLAN ids under study.                 *)
(***************************************************************************)
Install(r, op) ==
    /\ vlan4k' = r.chip.vlan4k
    /\ vlanmc' = r.chip.vlanmc
    /\ pvid_ctrl' = r.chip.pvid_ctrl
    /\ accept_frame_type' = r.chip.accept_frame_type
    /\ last' = [op |-> op, ret |-> r.ret]
    /\ UNCHANGED <<ta_vars, st_vars, ext_vars>>

Init ==
    LET c == rtl8365mb_vlan_init(ResetChip).chip IN
    /\ vlan4k = c.vlan4k
    /\ vlanmc = c.vlanmc
    /\ pvid_ctrl = c.pvid_ctrl
    /\ accept_frame_type = c.accept_frame_type
    /\ last = [op |-> "setup", ret |-> 0]
    /\ nreq = 0
    /\ TaInit
    /\ StInit
    /\ McInit
    /\ WkInit
    /\ IhInit
    /\ IsInit
    /\ VfInit
    /\ PhInit
    /\ CvInit
    /\ SpInit
    /\ SgInit

\* number of context slots the provisioning phase has occupied
FillLevel ==
    Cardinality({i \in 1 .. (RTL8365MB_VLAN_MC_CONF_SIZE - 1) :
        FIELD_GET(RTL8365MB_VLAN_MC_CONF3_EVID_MSK, vlanmc[i][3]) \in FillVids})

VlanFill ==
    /\ last.op \in {"setup", "fill"}
    /\ FillLevel < FillCount
    /\ Install(rtl8365mb_vlan_add(Chip, FillPort, FillVid(FillLevel + 1),
                   [untagged |-> FALSE, pvid |-> TRUE]), "fill")
    /\ UNCHANGED nreq

VlanAdd ==
    /\ FillLevel \in {0, FillCount}
    /\ nreq < MaxOps
    /\ \E port \in OpPorts, vid \in Vids, flags \in Flags :
           Install(rtl8365mb_vlan_add(Chip, port, vid, flags), "add")
    /\ nreq' = nreq + 1

VlanDel ==
    /\ FillLevel \in {0, FillCount}
    /\ nreq < MaxOps
    /\ \E port \in OpPorts, vid \in Vids, pvid \in BOOLEAN :
           Install(rtl8365mb_vlan_del(Chip, port, vid,
                       [untagged |-> FALSE, pvid |-> pvid]), "del")
    /\ nreq' = nreq + 1

\* the host switches the filtering of a port; the bus may fail
VlanFiltering ==
    /\ FillLevel \in {0, FillCount}
    /\ nreq < MaxOps
    /\ \E port \in OpPorts, on \in BOOLEAN, ret \in {0, -EIO} :
          /\ vlan_ingress' = IF ret = 0
                             THEN rtl8365mb_vlan_filtering(vlan_ingress,
                                                           port, on)
                             ELSE vlan_ingress
          /\ vf_last' = [port |-> port, on |-> on, ret |-> ret]
    /\ nreq' = nreq + 1
    /\ UNCHANGED <<vlan4k, vlanmc, pvid_ctrl, accept_frame_type, last,
                   ta_vars, st_vars, mc_vars, wk_vars, ih_vars, is_vars,
                   later_vars>>

Next == VlanFill \/ VlanAdd \/ VlanDel

(***************************************************************************)
(* rtl8365mb_setup, as far as mb->table_lock is concerned                  *)
(***************************************************************************)
SpKeep ==
    UNCHANGED <<last, nreq, ta_vars, st_vars, mc_vars, wk_vars, ih_vars,
                is_vars, vf_vars, ph_vars, cv_vars, sg_vars>>

\* from rtl8365mb_reset_chip to rtl8365mb_port_change_mtu: any of these
\* may fail and end the setup
SetupBegin ==
    /\ sp_pc = "start"
    /\ \E ok \in BOOLEAN :
          sp_pc' = IF ok THEN "vlan_init" ELSE "failed"
    /\ UNCHANGED <<tl_init, tl_used, tl_early, tl_reinit>>
    /\ CvChipKeep
    /\ SpKeep

\* rtl8365mb_vlan_init: its rtl8365mb_vlan4k_set for the CPU port goes
\* through rtl8365mb_table_access, that is mutex_lock(&mb->table_lock);
\* on a mutex never initialised the lock may also never return
SetupVlanInit ==
    /\ sp_pc = "vlan_init"
    /\ LET r == rtl8365mb_vlan_init(ResetChip)
       IN  /\ tl_used' = (tl_used \/ r.log # <<>>)
           /\ tl_early' = (tl_early \/ (r.log # <<>> /\ ~tl_init))
           /\ \E outcome \in {"ok", "failed"}
                              \cup (IF tl_init THEN {} ELSE {"hung"}) :
                 /\ sp_pc' = IF outcome = "ok" THEN "mdio" ELSE outcome
                 /\ IF outcome = "ok" THEN CvStore(r.chip) ELSE CvChipKeep
    /\ UNCHANGED <<tl_init, tl_reinit>>
    /\ SpKeep

\* rtl83xx_setup_user_mdio, then rtl8365mb_stats_setup
SetupMdio ==
    /\ sp_pc = "mdio"
    /\ \E ok \in BOOLEAN :
          sp_pc' = IF ok THEN "lock_init" ELSE "failed"
    /\ UNCHANGED <<tl_init, tl_used, tl_early, tl_reinit>>
    /\ CvChipKeep
    /\ SpKeep

\* mutex_init(&mb->table_lock); return 0
SetupLockInit ==
    /\ sp_pc = "lock_init"
    /\ tl_init' = TRUE
    /\ tl_reinit' = (tl_reinit \/ tl_used)
    /\ sp_pc' = "done"
    /\ UNCHANGED <<tl_used, tl_early>>
    /\ CvChipKeep
    /\ SpKeep

\* once set up, the switch serves the requests of the host
SetupServes ==
    /\ sp_pc = "done"
    /\ Next

SpNext ==
    SetupBegin \/ SetupVlanInit \/ SetupMdio \/ SetupLockInit \/ SetupServes


Spec == Init /\ [][Next]_vars

\* the spanning-tree state registers alone
StpSpec == Init /\ [][SgNext]_vars

\* the same requests, and requests to switch the filtering of a port
FilterSpec == Init /\ [][Next \/ VlanFiltering]_vars

\* concurrent table transactions on the chip as rtl8365mb_setup leaves it
TableSpec == Init /\ [][TaNext]_vars

\* the statistics work of a port, its readers and the counting hardware
StatsSpec == Init /\ [][StNext]_vars

\* the paths that read MIB counters, running concurrently
MibSpec == Init /\ [][McNext]_vars

\* the statistics work of every port under link changes and teardown
PollSpec == Init /\ [][WkNext]_vars

\* link events raised by the chip and runs of the interrupt handler
IrqSpec == Init /\ [][IhNext]_vars

\* rtl8365mb_setup, followed by the requests of the host
SetupSpec == Init /\ [][SpNext]_vars

\* two VLAN adds running at the same time on a freshly set up chip
RaceSpec == Init /\ [][CvNext]_vars

\* writes of PHY registers through the indirect access window
PhySpec == Init /\ [][PhNext]_vars

\* setting up and tearing down the interrupt controller of the switch
IrqSetupSpec == Init /\ [][IsNext]_vars

\* the same, with the kernel running what is runnable: an expired timer
\* starts the work, a started run goes on to its end, a handler that waits
\* for a run returns once the run is over, and a batch that is attempted
\* again and again succeeds at some time
LivePollSpec ==
    /\ PollSpec
    /\ \A port \in UserPorts :
          /\ WF_vars(WkStart(port))
          /\ WF_vars(WkUpdateOk(port) \/ WkUpdateFail(port))
          /\ SF_vars(WkUpdateOk(port))
          /\ WF_vars(WkRearm(port))
          /\ WF_vars(WkReturn(port))
          /\ WF_vars(LinkDownEnd(port))

(***************************************************************************)
(* Observers: the fields as the driver decodes them                        *)
(***************************************************************************)
Range(s) == {s[i] : i \in DOMAIN s}
AllPorts == 0 .. (RTL8365MB_MAX_NUM_PORTS - 1)
Slots == 1 .. (RTL8365MB_VLAN_MC_CONF_SIZE - 1)
PortPvid(chip, port) ==
    FIELD_GET(RTL8365MB_VLAN_PVID_CTRL_MASK(port),
              chip.pvid_ctrl[RTL8365MB_VLAN_PVID_CTRL_REG(port)])
PortFrameType(chip, port) ==
    FIELD_GET(RTL8365MB_VLAN_ACCEPT_FRAME_TYPE_MASK(port),
              chip.accept_frame_type[RTL8365MB_VLAN_ACCEPT_FRAME_TYPE_REG(port)])
SlotVid(chip, i) == FIELD_GET(RTL8365MB_VLAN_MC_CONF3_EVID_MSK, chip.vlanmc[i][3])
SlotMember(chip, i) == FIELD_GET(RTL8365MB_VLAN_MC_CONF0_MEMBERS_MSK, chip.vlanmc[i][0])
ById(chip, vid) == rtl8365mb_buf_vlan4k(chip.vlan4k[vid])
FreshChip == rtl8365mb_vlan_init(ResetChip).chip
\* the host may issue a request in this state
Serving == FillLevel \in {0, FillCount} /\ nreq < MaxOps
NoFlags == [untagged |-> FALSE, pvid |-> FALSE]
InRangeVids == {v \in Vids : v <= RTL8365MB_MAX_4K_VID}
DelFlags == {[untagged |-> FALSE, pvid |-> b] : b \in BOOLEAN}

(***************************************************************************)
(* Claims.  A claim about one request is stated for every request the host *)
(* may issue in every reachable state in which it may issue one.           *)
(***************************************************************************)

\* C1: after a successful Add(port, vid, pvid=true) the port's PVID field is
\* the index of a slot holding vid with port among its members, and the PVID
\* register is written only if the previous index differed; on the fresh
\* chip Add(2, 10, tagged, pvid) gives PVID(2) = 1, by-ID entry 10 with
\* member bit 2 set and untag bit 2 clear, and port 2 accepting any frame.
C1_PvidAfterAdd ==
    /\ Serving =>
         \A port \in OpPorts, vid \in Vids, untagged \in BOOLEAN :
            LET r == rtl8365mb_vlan_add(Chip, port, vid,
                         [untagged |-> untagged, pvid |-> TRUE])
                k == PortPvid(r.chip, port)
            IN r.ret = 0 =>
                 /\ k \in Slots
                 /\ SlotVid(r.chip, k) = vid
                 /\ TestBit(SlotMember(r.chip, k), port)
                 /\ (<<"pvid", RTL8365MB_VLAN_PVID_CTRL_REG(port)>> \in Range(r.log)
                       => PortPvid(Chip, port) # k)
    /\ Chip = FreshChip =>
         LET r == rtl8365mb_vlan_add(Chip, 2, 10, [untagged |-> FALSE, pvid |-> TRUE])
         IN /\ r.ret = 0
            /\ PortPvid(r.chip, 2) = 1
            /\ TestBit(ById(r.chip, 10).member, 2)
            /\ ~TestBit(ById(r.chip, 10).untag, 2)
            /\ PortFrameType(r.chip, 2) = RTL8365MB_FRAME_TYPE_ANY_FRAME

\* C1 witness: the fresh chip has served Add(2, 10, tagged, pvid)
C1_Witness ==
    /\ last = [op |-> "add", ret |-> 0]
    /\ nreq = 1
    /\ Chip = rtl8365mb_vlan_add(FreshChip, 2, 10,
                  [untagged |-> FALSE, pvid |-> TRUE]).chip
    /\ PortPvid(Chip, 2) = 1
    /\ SlotVid(Chip, 1) = 10

\* C3: a successful by-ID update leaves member bit `port` of entry vid equal
\* to include and untag bit `port` equal to (include and untagged); the bits
\* of the other ports, the fid field and all other by-ID entries are as before.
C3_ByIdUpdate ==
    Serving =>
      \A port \in AllPorts, vid \in InRangeVids, include \in BOOLEAN, untagged \in BOOLEAN :
         LET r == rtl8365mb_vlan4k_set(Chip, port, vid,
                      [untagged |-> untagged, pvid |-> FALSE], include)
             old == ById(Chip, vid)
             new == ById(r.chip, vid)
         IN /\ r.ret = 0
            /\ TestBit(new.member, port) = include
            /\ TestBit(new.untag, port) = (include /\ untagged)
            /\ \A q \in AllPorts \ {port} :
                  /\ TestBit(new.member, q) = TestBit(old.member, q)
                  /\ TestBit(new.untag, q) = TestBit(old.untag, q)
            /\ new.fid = old.fid
            /\ \A w \in Vids4k \ {vid} : r.chip.vlan4k[w] = Chip.vlan4k[w]
            /\ Range(r.log) = {<<"4k", vid>>}

\* C3 witness: entry 10 holds port 2 untagged and CPU port 8 tagged after adds
C3_Witness ==
    /\ last = [op |-> "add", ret |-> 0]
    /\ TestBit(ById(Chip, 10).member, 2)
    /\ TestBit(ById(Chip, 10).untag, 2)
    /\ TestBit(ById(Chip, 10).member, CpuPort)
    /\ ~TestBit(ById(Chip, 10).untag, CpuPort)

\* C4: no two context slots hold the same non-zero VLAN id.
C4_NoDuplicateVid ==
    LET evid == [i \in 0 .. (RTL8365MB_VLAN_MC_CONF_SIZE - 1) |->
                    FIELD_GET(RTL8365MB_VLAN_MC_CONF3_EVID_MSK, vlanmc[i][3])]
    IN \A i \in DOMAIN evid :
          evid[i] # 0 => \A j \in DOMAIN evid : i # j => evid[i] # evid[j]

\* C4 witness: two slots are in use and an Add for a VLAN that already has
\* its slot has been served
C4_Witness ==
    /\ last = [op |-> "add", ret |-> 0]
    /\ nreq = 3
    /\ SlotVid(Chip, 1) = 10
    /\ SlotVid(Chip, 2) = 11
    /\ TestBit(SlotMember(Chip, 1), 2)
    /\ TestBit(SlotMember(Chip, 1), 3)

\* C5: slot 0 keeps the all-zero entry written at setup: no Add or Delete
\* writes it, and none sets a PVID field to 0.
C5_SlotZeroReserved ==
    /\ vlanmc[0] = ZeroRow(RTL8365MB_VLAN_MC_CONF_ENTRY_SIZE)
    /\ Serving =>
         \A port \in OpPorts, vid \in Vids :
            /\ \A flags \in Flags :
                  LET r == rtl8365mb_vlan_add(Chip, port, vid, flags)
                  IN /\ <<"mc", 0>> \notin Range(r.log)
                     /\ \A q \in AllPorts :
                           PortPvid(r.chip, q) = 0 => PortPvid(Chip, q) = 0
            /\ \A flags \in DelFlags :
                  LET r == rtl8365mb_vlan_del(Chip, port, vid, flags)
                  IN /\ <<"mc", 0>> \notin Range(r.log)
                     /\ \A q \in AllPorts :
                           PortPvid(r.chip, q) = 0 => PortPvid(Chip, q) = 0

\* C5 witness: slots have been allocated and freed while slot 0 stayed zero
C5_Witness ==
    /\ last = [op |-> "del", ret |-> 0]
    /\ PortPvid(Chip, 2) = 1
    /\ SlotVid(Chip, 1) = 0
    /\ SlotVid(Chip, 2) = 11
    /\ vlanmc[0] = ZeroRow(RTL8365MB_VLAN_MC_CONF_ENTRY_SIZE)

\* lowest-indexed slot of 1..31 holding vid, or 0 if none does
HolderOf(chip, vid) ==
    LET h == {k \in Slots : SlotVid(chip, k) = vid}
    IN IF h = {} THEN 0 ELSE CHOOSE k \in h : \A j \in h : k <= j

\* C2 (as stated): a port's accepted-frame-type changes only from
\* tagged-only to any-frame in an Add, and only from any-frame to
\* tagged-only in a Delete of the VLAN whose slot is the port's PVID slot.
C2_FrameTypeFlips ==
    [][\A q \in AllPorts :
          PortFrameType(Chip', q) # PortFrameType(Chip, q) =>
             \/ /\ last'.op \in {"add", "fill"}
                /\ PortFrameType(Chip, q) = RTL8365MB_FRAME_TYPE_TAGGED_ONLY
                /\ PortFrameType(Chip', q) = RTL8365MB_FRAME_TYPE_ANY_FRAME
             \/ /\ last'.op = "del"
                /\ PortFrameType(Chip, q) = RTL8365MB_FRAME_TYPE_ANY_FRAME
                /\ PortFrameType(Chip', q) = RTL8365MB_FRAME_TYPE_TAGGED_ONLY
                /\ PortPvid(Chip, q) \in Slots]_vars

\* C6 (as stated): Add(port, vid, pvid=false) with vid >= 1 and no slot
\* holding vid succeeds and writes nothing but the by-ID entry for vid.
C6_NoSlotForPlainAdd_AnyVid ==
    Serving =>
      \A port \in OpPorts, vid \in Vids \ {0}, untagged \in BOOLEAN :
         HolderOf(Chip, vid) = 0 =>
            LET r == rtl8365mb_vlan_add(Chip, port, vid,
                         [untagged |-> untagged, pvid |-> FALSE])
            IN /\ r.ret = 0
               /\ Range(r.log) \subseteq {<<"4k", vid>>}
               /\ r.chip.vlanmc = Chip.vlanmc
               /\ r.chip.pvid_ctrl = Chip.pvid_ctrl
               /\ r.chip.accept_frame_type = Chip.accept_frame_type

\* C6 (amended): the same for 1 <= vid <= 4095; the by-ID entry for vid is
\* the only table row or register written.
C6_NoSlotForPlainAdd ==
    Serving =>
      \A port \in OpPorts, vid \in InRangeVids \ {0}, untagged \in BOOLEAN :
         HolderOf(Chip, vid) = 0 =>
            LET r == rtl8365mb_vlan_add(Chip, port, vid,
                         [untagged |-> untagged, pvid |-> FALSE])
            IN /\ r.ret = 0
               /\ Range(r.log) = {<<"4k", vid>>}
               /\ r.chip.vlanmc = Chip.vlanmc
               /\ r.chip.pvid_ctrl = Chip.pvid_ctrl
               /\ r.chip.accept_frame_type = Chip.accept_frame_type
               /\ \A w \in Vids4k \ {vid} : r.chip.vlan4k[w] = Chip.vlan4k[w]
               /\ TestBit(ById(r.chip, vid).member, port)

\* C6 witness: port 3 was added to VLAN 10 without PVID on the fresh chip
C6_Witness ==
    /\ last = [op |-> "add", ret |-> 0]
    /\ nreq = 1
    /\ TestBit(ById(Chip, 10).member, 3)
    /\ vlanmc = FreshChip.vlanmc
    /\ pvid_ctrl = FreshChip.pvid_ctrl
    /\ accept_frame_type = FreshChip.accept_frame_type

\* C7 (as stated): a successful Add(port, vid, pvid=true) that finds no slot
\* holding vid takes the lowest free slot and leaves in it vid and the by-ID
\* members of vid united with {port}; if a slot holds vid, port is merged
\* into its members; no other slot is written.
C7_SlotAllocation ==
    Serving =>
      \A port \in OpPorts, vid \in InRangeVids, untagged \in BOOLEAN :
         LET r == rtl8365mb_vlan_add(Chip, port, vid,
                      [untagged |-> untagged, pvid |-> TRUE])
             held == HolderOf(Chip, vid)
             free == HolderOf(Chip, 0)
             k == IF held # 0 THEN held ELSE free
         IN (r.ret = 0 /\ k # 0) =>
              /\ SlotVid(r.chip, k) = vid
              /\ SlotMember(r.chip, k) =
                    BitOr(IF held # 0 THEN SlotMember(Chip, k)
                          ELSE ById(Chip, vid).member, BIT(port))
              /\ \A j \in 0 .. (RTL8365MB_VLAN_MC_CONF_SIZE - 1) :
                    j # k => r.chip.vlanmc[j] = Chip.vlanmc[j]

\* C8 (as stated): with all 31 slots holding non-zero VLAN ids other than
\* vid, Add(port, vid, pvid=true) fails with an error that is not the
\* invalid-argument one, and changes nothing.
C8_ExhaustedError ==
    Serving =>
      \A port \in OpPorts, vid \in InRangeVids, untagged \in BOOLEAN :
         (\A k \in Slots : SlotVid(Chip, k) # 0 /\ SlotVid(Chip, k) # vid) =>
            LET r == rtl8365mb_vlan_add(Chip, port, vid,
                         [untagged |-> untagged, pvid |-> TRUE])
            IN /\ r.ret < 0
               /\ r.ret # -EINVAL
               /\ r.chip = Chip

C10_AddDeleteRestores ==
    Serving =>
      \A port \in OpPorts, vid \in InRangeVids, flags \in Flags :
         LET a == rtl8365mb_vlan_add(Chip, port, vid, flags)
             d == rtl8365mb_vlan_del(a.chip, port, vid, NoFlags)
             k == HolderOf(a.chip, vid)
             SameButCpu(x, y) == BitAndNot(x, dsa_cpu_ports) = BitAndNot(y, dsa_cpu_ports)
         IN a.ret = 0 =>
              /\ SameButCpu(ById(d.chip, vid).member, ById(Chip, vid).member)
              /\ SameButCpu(ById(d.chip, vid).untag, ById(Chip, vid).untag)
              /\ (HolderOf(Chip, vid) = 0 /\ k # 0) =>
                    /\ SlotVid(d.chip, k) = SlotVid(Chip, k)
                    /\ SameButCpu(SlotMember(d.chip, k), SlotMember(Chip, k))

\* C10 (amended): if p is not a member of by-ID entry v, a successful
\* Add(p, v) followed by Delete(p, v) returns that entry to its pre-Add
\* state; a slot allocated by the Add is zeroed by the Delete if the Add
\* stored no member besides p and CPU ports in it, and otherwise stays
\* allocated to v with p removed.
C10_AddDeleteRestoresNewMember ==
    Serving =>
      \A port \in OpPorts, vid \in InRangeVids, flags \in Flags :
         LET a == rtl8365mb_vlan_add(Chip, port, vid, flags)
             d == rtl8365mb_vlan_del(a.chip, port, vid, NoFlags)
             k == HolderOf(a.chip, vid)
             rest == BitAndNot(SlotMember(a.chip, k), BIT(port))
         IN (a.ret = 0 /\ ~TestBit(ById(Chip, vid).member, port)) =>
              /\ d.ret = 0
              /\ d.chip.vlan4k = Chip.vlan4k
              /\ (vid # 0 /\ HolderOf(Chip, vid) = 0 /\ k # 0) =>
                    IF BitAndNot(rest, dsa_cpu_ports) = 0
                    THEN d.chip.vlanmc[k] = ZeroRow(RTL8365MB_VLAN_MC_CONF_ENTRY_SIZE)
                    ELSE SlotVid(d.chip, k) = vid /\ SlotMember(d.chip, k) = rest

\* C10 witness: Add(2, 10, pvid) then Delete(2, 10) on the fresh chip: both
\* tables are as after setup, only the PVID of port 2 still names slot 1
C10_Witness ==
    /\ last = [op |-> "del", ret |-> 0]
    /\ nreq = 2
    /\ vlan4k = FreshChip.vlan4k
    /\ vlanmc = FreshChip.vlanmc
    /\ PortPvid(Chip, 2) = 1
    /\ PortFrameType(Chip, 2) = RTL8365MB_FRAME_TYPE_TAGGED_ONLY


\* the port's PVID field is 0 or names a slot holding a VLAN the port is in
PvidValid(chip, port) ==
    LET k == PortPvid(chip, port)
    IN k = 0 \/ (SlotVid(chip, k) # 0 /\ TestBit(SlotMember(chip, k), port))

\* C11 (as stated): every port's PVID register is 0 or the index of a slot
\* with a non-zero VLAN ID containing the port; in particular a Delete
\* never leaves a PVID that was valid pointing at a freed or left slot.
C11_PvidRolledBack ==
    [][last'.op = "del" =>
         \A q \in AllPorts : PvidValid(Chip, q) => PvidValid(Chip', q)]_vars

\* position of the first / last write of a kind in a write log (0 if none)
FirstWrite(log, kinds) ==
    LET at == {i \in 1 .. Len(log) : log[i][1] \in kinds}
    IN IF at = {} THEN 0 ELSE CHOOSE i \in at : \A j \in at : i <= j
LastWrite(log, kinds) ==
    LET at == {i \in 1 .. Len(log) : log[i][1] \in kinds}
    IN IF at = {} THEN 0 ELSE CHOOSE i \in at : \A j \in at : i >= j

\* C12 (as stated): an Add writes the by-ID row before the slot and the
\* slot before the PVID / frame-type registers, so the state between its
\* two table steps never has a slot holding vid with port as a member
\* while the by-ID entry for vid lacks port.
C12_ByIdBeforeSlot ==
    Serving =>
      \A port \in OpPorts, vid \in InRangeVids \ {0}, flags \in Flags :
         LET r == rtl8365mb_vlan_add(Chip, port, vid, flags)
             mid == rtl8365mb_vlanmc_set(Chip, port, vid, flags, TRUE).chip
             w4k == LastWrite(r.log, {"4k"})
             wmc == FirstWrite(r.log, {"mc"})
             wreg == FirstWrite(r.log, {"pvid", "aft"})
         IN r.ret = 0 =>
              /\ (wmc # 0 => w4k < wmc)
              /\ (wreg # 0 => w4k < wreg /\ LastWrite(r.log, {"mc"}) < wreg)
              /\ \A k \in Slots :
                    (SlotVid(mid, k) = vid /\ TestBit(SlotMember(mid, k), port))
                       => TestBit(ById(mid, vid).member, port)

\* C13 (as stated): Add with vid > 4095 fails with the invalid-argument
\* error and leaves by-ID table, slots, PVID and frame type as they were.
C13_OutOfRangeAddNoEffect ==
    Serving =>
      \A port \in OpPorts, vid \in Vids \ InRangeVids, flags \in Flags :
         LET r == rtl8365mb_vlan_add(Chip, port, vid, flags)
         IN /\ r.ret = -EINVAL
            /\ r.chip = Chip

C15_BadArgsRejected ==
    \A p \in Callers :
       LET c == ta_call[p] IN
       (/\ ta_pc[p] # "idle"
        /\ \/ c.table \notin 1 .. (RTL8365MB_NUM_TABLES - 1)
           \/ ~FIELD_FIT(RTL8365MB_TABLE_ACCESS_ADDR_REG_MASK, c.index))
       => /\ ta_pc[p] = "ret"
          /\ ta_ret[p] = -EINVAL
          /\ table_lock # p

\* C16: a caller is between its first and its last register access of a
\* transaction exactly while it holds table_lock, so transactions never
\* interleave, and the lock is not held by a caller that has returned,
\* whether with success, a timeout or a transport error.
C16_TableLockExclusive ==
    /\ table_lock \in {0} \cup Callers
    /\ \A p \in Callers : (ta_pc[p] \in InTransaction) <=> (table_lock = p)

\* C16 witness: caller 1 timed out and is about to release the lock that
\* caller 2 is waiting for
C16_Witness ==
    /\ ta_pc[1] = "out"
    /\ ta_ret[1] = -ETIMEDOUT
    /\ table_lock = 1
    /\ ta_pc[2] = "lock"

\* C17 (as stated): a read programs the address register only after it saw
\* the busy flag (bit 13) clear, copies the read-data registers only after
\* it saw the flag clear again, and times out, returning no row, only when
\* the flag stayed set.
C17_BusyFlagObserved ==
    \A p \in Callers :
       ta_call[p].op = RTL8365MB_TABLE_READ =>
          /\ ta_pc[p] \in {"addr", "rdata"} =>
                FIELD_GET(RTL8365MB_TABLE_LUT_BUSY_FLAG_MASK, ta_lut[p]) = 0
          /\ (ta_pc[p] = "out" /\ ta_ret[p] = -ETIMEDOUT) =>
                /\ FIELD_GET(RTL8365MB_TABLE_LUT_BUSY_FLAG_MASK, ta_lut[p]) = 1
                /\ ta_call[p].val = TaReadBuf

\* C18 (as stated): a successful read of a row returns the row that the
\* last completed write to the same table and index stored.
C18_WriteReadRoundTrip ==
    \A p \in Callers :
       (/\ ta_pc[p] = "out"
        /\ ta_call[p].op = RTL8365MB_TABLE_READ
        /\ ta_ret[p] = 0
        /\ ta_expect[p] # NoRow)
       => ta_call[p].val = ta_expect[p]


\* the link statistics that a full set of counters stands for
SnapshotOf(cnt) ==
    LET rx == u64_sub(u64_add(u64_add(cnt["ifInUcastPkts"],
                                      cnt["ifInMulticastPkts"]),
                              cnt["ifInBroadcastPkts"]),
                      cnt["ifOutDiscards"])
        tx == u64_add(u64_add(cnt["ifOutUcastPkts"], cnt["ifOutMulticastPkts"]),
                      cnt["ifOutBroadcastPkts"])
        len == u64_add(cnt["etherStatsFragments"], cnt["etherStatsJabbers"])
    IN  [rx_packets |-> rx,
         tx_packets |-> tx,
         rx_bytes |-> u64_sub(cnt["ifInOctets"], u64_mul4(rx)),
         tx_bytes |-> u64_sub(cnt["ifOutOctets"], u64_mul4(tx)),
         rx_dropped |-> cnt["etherStatsDropEvents"],
         tx_dropped |-> cnt["ifOutDiscards"],
         multicast |-> cnt["ifInMulticastPkts"],
         collisions |-> cnt["etherStatsCollisions"],
         rx_length_errors |-> len,
         rx_crc_errors |-> cnt["dot3StatsFCSErrors"],
         rx_errors |-> u64_add(len, cnt["dot3StatsFCSErrors"]),
         tx_aborted_errors |-> cnt["ifOutDiscards"],
         tx_window_errors |-> cnt["dot3StatsLateCollisions"],
         tx_errors |-> u64_add(cnt["ifOutDiscards"],
                               cnt["dot3StatsLateCollisions"])]

\* C19: when a cycle of the statistics work ends after a failed counter
\* read, every field of the published snapshot is what it was when the
\* cycle started, and it is still a snapshot some earlier cycle completed
\* (or the initial one), so readers see no trace of the failure; when a
\* cycle ends with all reads successful, every field of the snapshot is the
\* value derived from the counters that cycle read.
C19_FailedCycleKeepsSnapshot ==
    su_pc = "done" =>
       IF su_ret # 0
       THEN stats = st_before /\ stats \in st_published
       ELSE /\ stats = SnapshotOf(su_cnt)
            /\ \A i \in 1 .. Len(MibOrder) :
                  \E g \in 0 .. mib_gen :
                     su_cnt[MibOrder[i]] = MibValue(g, MibOrder[i])

\* C19 witness: after a cycle published a snapshot, a later cycle ended
\* because its 5th counter read returned an I/O error
C19_Witness ==
    /\ su_pc = "done"
    /\ su_ret = -EIO
    /\ su_i = 5
    /\ st_ncycles > 0
    /\ stats # StatsInit
    /\ stats = st_before

\* C20: the snapshot that rtl8365mb_get_stats64 hands back is, field for
\* field, the snapshot one completed update cycle published, or the initial
\* snapshot; it never combines fields of two cycles.
C20_ReaderSeesOneCycle ==
    gs_pc = "spin_unlock" => gs_s \in st_published

\* C20 witness: the reader copied the snapshot of a completed cycle while
\* the updater of the port, with fresh counters, waits for the lock
C20_Witness ==
    /\ gs_pc = "spin_unlock"
    /\ su_pc = "spin_lock"
    /\ stats_lock = "reader"
    /\ gs_s # StatsInit
    /\ gs_s # SnapshotOf(su_cnt)


\* C21: a caller that has written the counter address and has not finished
\* reading the data registers holds mib_lock, no other caller is between
\* mutex_lock and mutex_unlock, and the address register still holds the
\* address it wrote; when no caller is between lock and unlock, also after
\* a failed read, the lock is free.
C21_MibReadsSerialised ==
    /\ \A p \in Callers :
          mc_pc[p] \in MibLocked =>
             /\ mib_lock = mc_call[p].kind
             /\ \A q \in Callers \ {p} : mc_pc[q] \notin MibLocked
    /\ \A p \in Callers :
          mc_pc[p] \in MibAddressed =>
             mib_address_reg =
                RTL8365MB_MIB_ADDRESS(mc_call[p].port, McCounter(p).offset)
    /\ (\A p \in Callers : mc_pc[p] \notin MibLocked) => mib_lock = "free"

\* C21 witness: the scheduled update of a port is about to release the
\* lock after a failed read while an on-demand path of the other port
\* waits for it
C21_Witness ==
    \E p, q \in Callers :
       /\ mc_pc[p] = "unlock" /\ mc_call[p].kind = "update" /\ mc_ret[p] # 0
       /\ mc_pc[q] = "lock" /\ mc_call[q].kind = "ethtool"
       /\ mc_call[q].port # mc_call[p].port


WkQuiet(port) == ~WkPending(port) /\ ~WkRunning(port)

\* C23: while a port's link is down (link-down handling has returned and
\* no link-up came since, or the link never came up) its poll is neither
\* pending nor running; after teardown the poll of no port is pending or
\* running; a poll is pending while it runs only when the run has re-armed
\* itself and is returning; and every link-up leaves the poll pending with
\* zero delay.
C23_PollStopsWithLink ==
    /\ [](\A port \in UserPorts :
             /\ wk_link[port] = "down" => WkQuiet(port)
             /\ td_pc = "done" => WkQuiet(port)
             /\ (WkPending(port) /\ WkRunning(port)) => wk_pc[port] = "return")
    /\ [][\A port \in UserPorts :
             (wk_link[port] = "down" /\ wk_link'[port] = "up")
                => wk_timer'[port] = "now"]_vars

\* C23 witness: link-down handling waits for a poll that was in flight and
\* is about to re-arm itself
C23_Witness ==
    \E port \in UserPorts :
       /\ wk_link[port] = "going_down"
       /\ wk_cancel[port]
       /\ wk_pc[port] = "rearm"

\* C24: a run that returns while the link is up has left the poll pending
\* for the fixed interval, whatever its batch returned; and once a batch
\* has failed, the snapshot is refreshed by a later successful batch unless
\* the link leaves the up state first.
C24_FailedCycleRetried ==
    /\ [](\A port \in UserPorts :
             (wk_pc[port] = "return" /\ wk_link[port] = "up" /\ td_pc = "live")
                => wk_timer[port] = "interval")
    /\ \A port \in UserPorts :
          wk_stale[port] ~>
             (~wk_stale[port] \/ wk_link[port] # "up" \/ td_pc # "live")

\* C24 witness: a run whose batch failed has re-armed itself while the
\* link is up
C24_Witness ==
    \E port \in UserPorts :
       /\ wk_pc[port] = "return"
       /\ wk_ret[port] = -EIO
       /\ wk_stale[port]
       /\ wk_link[port] = "up"
       /\ wk_timer[port] = "interval"


\* ports whose bit was set in the link-up or the link-down indicator when
\* the last run of the handler began, if the link-change bit was set
IrqChanged ==
    IF TestBit(irq_in.status, 0)
    THEN {line \in 0 .. (num_ports - 1) :
             TestBit(irq_in.up, line) \/ TestBit(irq_in.down, line)}
    ELSE {}

\* C25: a run of the handler without a transport error handles the nested
\* interrupt of exactly the ports whose bit was set in the link-up or the
\* link-down indicator while the link-change bit was set, each once, and
\* returns IRQ_HANDLED; when there is no such port it handles none and
\* returns IRQ_NONE.
C25_IrqDispatch ==
    (irq_ret # "none" /\ irq_err = 0) =>
       /\ {irq_lines[i] : i \in 1 .. Len(irq_lines)} = IrqChanged
       /\ Len(irq_lines) = Cardinality(IrqChanged)
       /\ irq_ret = IF IrqChanged # {} THEN "IRQ_HANDLED" ELSE "IRQ_NONE"

\* C25 witness: one port came up and another went down, and the run
\* handled both
C25_Witness ==
    /\ irq_ret = "IRQ_HANDLED"
    /\ irq_err = 0
    /\ irq_lines = <<2, 10>>
    /\ irq_in.up = BIT(2)
    /\ irq_in.down = BIT(10)

\* C26 (as stated): a run of the handler in which a register access failed
\* handles no nested interrupt and returns IRQ_HANDLED.
C26_ErrorReportedHandled ==
    (irq_ret # "none" /\ irq_err # 0) =>
       irq_lines = <<>> /\ irq_ret = "IRQ_HANDLED"


\* positions in the log of the last call at which it did ev
IsAt(ev) == {i \in 1 .. Len(is_log) : is_log[i].ev = ev}

\* C27 (as stated): in a call of rtl8365mb_irq_teardown, and in a failing
\* call of rtl8365mb_irq_setup, every mapping is disposed of before the
\* parent interrupt is freed.
C27_MappingsBeforeParent ==
    \A i \in IsAt("irq_dispose_mapping") : \A j \in IsAt("free_irq") : i < j

\* C27: in a call of rtl8365mb_irq_teardown, and in a failing call of
\* rtl8365mb_irq_setup, the parent interrupt is freed first, then every
\* mapping is disposed of, and then the domain is removed.
C27_ParentBeforeMappings ==
    /\ \A i \in IsAt("free_irq") : \A j \in IsAt("irq_dispose_mapping") : i < j
    /\ \A i \in IsAt("irq_dispose_mapping") :
          \A j \in IsAt("irq_domain_remove") : i < j

\* C27 witness: a teardown that freed the parent interrupt and disposed of
\* the mapping of every line
C27_Witness ==
    /\ is_last.op = "teardown"
    /\ IsAt("free_irq") # {}
    /\ Cardinality(IsAt("irq_dispose_mapping")) = num_ports

\* C28: after rtl8365mb_irq_setup returned an error no handler is
\* registered, mb->irq is 0, and no domain, mapping or node reference is
\* left; a call enables the link-change interrupt only after it cleared the
\* status register and registered the handler; rtl8365mb_irq_teardown
\* leaves nothing behind, and nothing is ever released that is not held.
C28_SetupScoped ==
    /\ (is_last.op = "setup" /\ is_last.ret # 0) =>
          /\ mb_irq = 0
          /\ ~irq_handler
          /\ ~irqdomain
          /\ virq_maps = {}
    /\ \A j \in IsAt("irq_enable") :
          /\ \E i \in IsAt("status_clear") : i < j
          /\ \E i \in IsAt("request_threaded_irq") : i < j
    /\ is_last.op = "teardown" =>
          /\ mb_irq = 0
          /\ ~irq_handler
          /\ ~irqdomain
          /\ virq_maps = {}
    /\ intc_refs = 0
    /\ (mb_irq # 0) = irq_handler
    /\ Cardinality(IsAt("free_irq")) <= 1
    /\ Cardinality(IsAt("irq_domain_remove")) <= 1
    /\ \A i, j \in IsAt("irq_dispose_mapping") :
          is_log[i].line = is_log[j].line => i = j
    /\ ~is_fault

\* C28 witness: a setup that failed while enabling the interrupt, after it
\* had registered the handler
C28_Witness ==
    /\ is_last = [op |-> "setup", ret |-> -EIO]
    /\ IsAt("request_threaded_irq") # {}
    /\ IsAt("free_irq") # {}


\* C29: a successful call of rtl8365mb_vlan_filtering sets the bit of its
\* port in the ingress filter register to the requested value and leaves
\* the bits of all other ports, the by-ID table, the context slots, the
\* PVID registers and the accepted-frame-type registers as they were.
C29_FilteringTouchesOneBit ==
    [][(vf_vars' # vf_vars /\ vf_last'.ret = 0) =>
          /\ \A p \in 0 .. 15 :
                TestBit(vlan_ingress', p) =
                   IF p = vf_last'.port THEN vf_last'.on
                   ELSE TestBit(vlan_ingress, p)
          /\ vlan4k' = vlan4k
          /\ vlanmc' = vlanmc
          /\ pvid_ctrl' = pvid_ctrl
          /\ accept_frame_type' = accept_frame_type]_vars

\* C29 witness: filtering was switched off for one port while it is on for
\* another and a VLAN has members
C29_Witness ==
    /\ vf_last = [port |-> 2, on |-> FALSE, ret |-> 0]
    /\ TestBit(vlan_ingress, 3)
    /\ ~TestBit(vlan_ingress, 2)
    /\ vlan4k # ResetChip.vlan4k


\* C30 (as stated): rtl8365mb_vlan_del returns 0 when its by-ID step and
\* its slot step both succeeded, and otherwise the error code that a
\* failing step returned.
C30_DelReturnsStepError ==
    [][(nreq' = nreq + 1 /\ last'.op = "del") =>
          \E port \in OpPorts, vid \in Vids, pvid \in BOOLEAN :
             LET flags == [untagged |-> FALSE, pvid |-> pvid]
                 k4 == rtl8365mb_vlan4k_set(Chip, port, vid, flags, FALSE)
                 mc == rtl8365mb_vlanmc_set(k4.chip, port, vid, flags, FALSE)
             IN  /\ vlan4k' = mc.chip.vlan4k
                 /\ vlanmc' = mc.chip.vlanmc
                 /\ pvid_ctrl' = mc.chip.pvid_ctrl
                 /\ accept_frame_type' = mc.chip.accept_frame_type
                 /\ IF k4.ret = 0 /\ mc.ret = 0
                    THEN last'.ret = 0
                    ELSE last'.ret \in {k4.ret, mc.ret} \ {0}]_vars


\* C31 (as stated): a PHY register write takes the bus lock first and
\* releases it last on every path, returns the error of the access that
\* failed, and returns 0 only when its command was issued and completed.
C31_PhyWriteSurfacesFailure ==
    /\ ph_last.log # <<>> =>
          /\ Head(ph_last.log) = "rtl83xx_lock"
          /\ ph_last.log[Len(ph_last.log)] = "rtl83xx_unlock"
          /\ \A i \in 2 .. (Len(ph_last.log) - 1) : ph_last.log[i] = "access"
    /\ ph_last.err # 0 => ph_last.ret = ph_last.err
    /\ (ph_last.log # <<>> /\ ph_last.ret = 0) => ph_last.completed


\* the counter whose read caller p has just committed, if any
McCommitted(p) ==
    IF mc_call[p].kind = "none" \/ mc_out[p] = MibUntouched THEN {}
    ELSE IF mc_pc[p] = "unlock" /\ mc_ret[p] = 0
    THEN {rtl8365mb_mib_counters[MibLists[mc_call[p].kind][mc_i[p]]]}
    ELSE IF mc_pc[p] = "addr" /\ mc_i[p] > 1
    THEN {rtl8365mb_mib_counters[MibLists[mc_call[p].kind][mc_i[p] - 1]]}
    ELSE {}

\* C32: every counter of the table has an even offset and 2 or 4 words;
\* pass w of the word loop reads a counter register with index in 0..3,
\* 3 - w for a 4-word counter and (offset + 1) mod 4 - w for a 2-word
\* counter, in `length` passes; the committed value has the first word
\* read as its most significant word.
C32_CounterWords ==
    /\ \A i \in 1 .. Len(rtl8365mb_mib_counters) :
          LET c == rtl8365mb_mib_counters[i]
          IN  c.offset % 2 = 0 /\ c.length \in {2, 4}
    /\ \A p \in Callers :
          mc_pc[p] = "data" =>
             LET c == McCounter(p)
                 top == IF c.length = 4 THEN 3 ELSE (c.offset + 1) % 4
             IN  /\ mc_w[p] \in 0 .. (c.length - 1)
                 /\ McWordReg(c, mc_w[p]) = top - mc_w[p]
                 /\ McWordReg(c, mc_w[p]) \in 0 .. 3
    /\ \A p \in Callers : \A c \in McCommitted(p) :
          LET top == IF c.length = 4 THEN 3 ELSE (c.offset + 1) % 4
              reg(k) == mib_counter_regs[k] % 2^16
          IN  mc_out[p] =
                 IF c.length = 4
                 THEN <<reg(0), reg(1), reg(2), reg(3)>>
                 ELSE <<reg(top - 1), reg(top), 0, 0>>

\* C32 witness: a caller has committed a 2-word counter read from the
\* upper half of the window
C32_Witness ==
    \E p \in Callers : \E c \in McCommitted(p) :
       /\ c.length = 2
       /\ (c.offset + 1) % 4 = 3
       /\ mc_out[p][1] # mc_out[p][2]


\* C33: the busy poll of rtl8365mb_mib_counter_read gives up with
\* -ETIMEDOUT after the poll bound when the last value read was still busy;
\* the word loop is entered only after a value with busy and reset clear
\* was read; every failure is -EIO or -ETIMEDOUT; and while a read has
\* failed or has not finished, the caller's value is as it was before.
C33_MibReadErrors ==
    \A p \in Callers :
       /\ mc_polls[p] < PollBound
       /\ mc_ret[p] \in {0, -EIO, -ETIMEDOUT}
       /\ mc_ret[p] = -ETIMEDOUT =>
             /\ mc_polls[p] + 1 >= PollBound
             /\ TestBit(mc_val[p], 0)
       /\ mc_pc[p] = "data" => ~TestBit(mc_val[p], 0) /\ ~TestBit(mc_val[p], 1)
       /\ mc_ret[p] # 0 => mc_out[p] = MibUntouched
       /\ mc_pc[p] \in {"poll", "data"} => mc_out[p] = MibUntouched

\* C33 witness: a read failed in its word loop after it had assembled a
\* word
C33_Witness ==
    \E p \in Callers :
       /\ mc_pc[p] = "unlock"
       /\ mc_ret[p] = -EIO
       /\ mc_w[p] > 0
       /\ mc_tmp[p] # U64(0)
       /\ mc_out[p] = MibUntouched


\* the slot the PVID field of a port points to
CvPvid(a) ==
    FIELD_GET(RTL8365MB_VLAN_PVID_CTRL_MASK(CvReq[a].port),
              pvid_ctrl[RTL8365MB_VLAN_PVID_CTRL_REG(CvReq[a].port)])

\* slots that hold the VLAN id of a request
CvSlotsOf(a) ==
    {i \in 1 .. (RTL8365MB_VLAN_MC_CONF_SIZE - 1) :
        FIELD_GET(RTL8365MB_VLAN_MC_CONF3_EVID_MSK, vlanmc[i][3])
           = CvReq[a].vid}

\* C34: two adds with PVID for different VLANs on different ports are not
\* atomic with respect to each other: each ends with its port's PVID field
\* pointing to the slot it selected, and when both selected the same free
\* slot, that slot holds one of the two VLAN ids and the other VLAN has no
\* slot at all.  (The witness shows that this happens.)
C34_AddsShareSlot ==
    (\A a \in CvCallers : cv_pc[a] = "done" /\ cv_ret[a] = 0) =>
       /\ \A a \in CvCallers : CvPvid(a) = cv_idx[a]
       /\ cv_idx[1] = cv_idx[2] =>
             /\ Cardinality(CvSlotsOf(1) \cup CvSlotsOf(2)) = 1
             /\ CvSlotsOf(1) = {} \/ CvSlotsOf(2) = {}
             /\ CvSlotsOf(1) \cup CvSlotsOf(2) = {cv_idx[1]}
       /\ cv_idx[1] # cv_idx[2] =>
             \A a \in CvCallers : CvSlotsOf(a) = {cv_idx[a]}

\* C34 witness: both adds have returned 0, both PVID fields point to the
\* same slot, and the VLAN of the first request has no slot
C34_Witness ==
    /\ \A a \in CvCallers : cv_pc[a] = "done" /\ cv_ret[a] = 0
    /\ cv_idx[1] = cv_idx[2]
    /\ CvPvid(1) = CvPvid(2)
    /\ CvPvid(1) = cv_idx[1]
    /\ CvSlotsOf(1) = {}
    /\ CvSlotsOf(2) = {cv_idx[2]}


\* C35 (as stated): mb->table_lock is never taken before mutex_init has
\* run on it, and mutex_init never runs on it after it has been taken.
C35_TableLockInitFirst ==
    ~tl_early /\ ~tl_reinit


\* C36 (as stated): every context slot in 1..31 whose VLAN id is 0 has an
\* empty member bitmap.
C36_FreeSlotsEmpty ==
    \A i \in 1 .. (RTL8365MB_VLAN_MC_CONF_SIZE - 1) :
       FIELD_GET(RTL8365MB_VLAN_MC_CONF3_EVID_MSK, vlanmc[i][3]) = 0 =>
          FIELD_GET(RTL8365MB_VLAN_MC_CONF0_MEMBERS_MSK, vlanmc[i][0]) = 0

\* the slots of 1..31 that hold a VLAN
OccupiedSlots(mc) ==
    {i \in Slots : FIELD_GET(RTL8365MB_VLAN_MC_CONF3_EVID_MSK, mc[i][3]) # 0}

\* C37 (as stated): a Delete never allocates a slot, whatever its flags: the
\* slots holding a VLAN after it are among those holding one before it, and
\* a Delete for a VLAN without a slot does not fail for lack of a free slot.
C37_DeleteNeverAllocates ==
    [][(nreq' = nreq + 1 /\ last'.op = "del") =>
          /\ OccupiedSlots(vlanmc') \subseteq OccupiedSlots(vlanmc)
          /\ \A port \in OpPorts, vid \in Vids, flags \in DelFlags :
                (/\ \A i \in Slots : SlotVid(Chip, i) # vid
                 /\ OccupiedSlots(vlanmc) = Slots)
                => rtl8365mb_vlanmc_set(Chip, port, vid, flags, FALSE).ret # -EINVAL]_vars

\* C38 (as stated): a run of the handler never clears the bit of a port in
\* the link-up or the link-down indicator without handling the nested
\* interrupt of that port in the same run, also when a later register
\* access of the run fails.
C38_ClearedBitsDispatched ==
    [][\A line \in 0 .. (num_ports - 1) :
          (\/ TestBit(linkup_ind, line) /\ ~TestBit(linkup_ind', line)
           \/ TestBit(linkdown_ind, line) /\ ~TestBit(linkdown_ind', line))
          => \E k \in 1 .. Len(irq_lines') : irq_lines'[k] = line]_vars

\* the requests the host may issue for a port, by their outcome
PortRequests(port) ==
    {rtl8365mb_vlan_add(Chip, port, vid, flags) : vid \in Vids, flags \in Flags}
    \cup {rtl8365mb_vlan_del(Chip, port, vid, flags) : vid \in Vids,
                                                       flags \in DelFlags}

\* C39: an Add or a Delete on port p, successful or failed, leaves the PVID
\* field and the accepted-frame-type field of every other port q of 0..10
\* as they were.
C39_OtherPortsKept ==
    Serving =>
       \A p \in AllPorts : \A r \in PortRequests(p) :
          \A q \in AllPorts \ {p} :
             /\ PortPvid(r.chip, q) = PortPvid(Chip, q)
             /\ PortFrameType(r.chip, q) = PortFrameType(Chip, q)

\* C39 witness: ports 2 and 3 share both registers; port 2 uses slot 1 as
\* its PVID, and an Add has just made slot 2 the PVID of port 3
C39_Witness ==
    /\ last.op = "add"
    /\ last.ret = 0
    /\ PortPvid(Chip, 2) = 1
    /\ PortPvid(Chip, 3) = 2
    /\ PortFrameType(Chip, 2) = RTL8365MB_FRAME_TYPE_ANY_FRAME
    /\ PortFrameType(Chip, 3) = RTL8365MB_FRAME_TYPE_ANY_FRAME

\* the hardware state that stands for a state of the bridge
StpHardwareState(state) ==
    CASE state = BR_STATE_DISABLED -> 0
      [] state = BR_STATE_BLOCKING -> 1
      [] state = BR_STATE_LISTENING -> 1
      [] state = BR_STATE_LEARNING -> 2
      [] state = BR_STATE_FORWARDING -> 3

\* the state field of a port in the 16 bits of its register
StpField(regs, port) ==
    FIELD_GET(RTL8365MB_MSTI_CTRL_PORT_STATE_MASK(port),
              regs[RTL8365MB_MSTI_CTRL_REG(0, port)])

\* C40 (as stated): for every port of 0..10 and every state of the bridge
\* a call stores the mapped hardware state in a 2-bit field inside the 16
\* bits of the register of the port, so that the register records it, and
\* leaves the fields of the other ports as they were; a call with a value
\* that is no state of the bridge leaves the registers unchanged.
C40_StpStateRecorded ==
    [][stp_n' = stp_n + 1 =>
          LET port == stp_last'.port
              state == stp_last'.state
          IN  IF state \in {BR_STATE_DISABLED, BR_STATE_BLOCKING,
                            BR_STATE_LISTENING, BR_STATE_LEARNING,
                            BR_STATE_FORWARDING}
              THEN /\ RTL8365MB_MSTI_CTRL_PORT_STATE_MASK(port).h <= 15
                   /\ StpField(msti_ctrl', port) = StpHardwareState(state)
                   /\ \A q \in StpPorts \ {port} :
                         StpField(msti_ctrl', q) = StpField(msti_ctrl, q)
              ELSE msti_ctrl' = msti_ctrl]_vars

====
